---------------------------- MODULE Spec2Model ----------------------------
(***************************************************************************)
(* A model of the hair-card tool chain of cc_blender_tools:                *)
(*   geom.py  UV island analysis (get_uv_islands),                         *)
(*   hair.py  loop merging, bone chain generation, duplicate removal,      *)
(*            orphan repair and the mode (edit session) discipline.        *)
(* Each part of the program has its own variables and its own              *)
(* specification; a specification leaves the other parts' variables idle.  *)
(***************************************************************************)
EXTENDS Integers, Sequences, FiniteSets, TLC

(***************************************************************************)
(* Bounds of the model.                                                    *)
(***************************************************************************)
NumFaces == 3

\* The largest number of edge loops one island (hair card) yields.
MaxLoops == 3

\* The number of edges of the mesh that get_vert_loops is given edges of.
NumEdges == 5

(***************************************************************************)
(* Generic helpers.                                                        *)
(***************************************************************************)
Range(s) == {s[i] : i \in DOMAIN s}

Min2(a, b) == IF a <= b THEN a ELSE b

Max2(a, b) == IF a >= b THEN a ELSE b

\* The elements of a finite set of integers as an ascending sequence.
RECURSIVE SetToSeq(_)
SetToSeq(S) ==
    IF S = {} THEN <<>>
    ELSE LET m == CHOOSE x \in S : \A y \in S : x <= y
         IN  <<m>> \o SetToSeq(S \ {m})

\* Number of positions of sequence s that hold x.
Occurrences(s, x) == Cardinality({i \in DOMAIN s : s[i] = x})

VARIABLES
    \* ---- geom.get_uv_islands ----
    bm_faces,       \* the mesh: face index -> set of loops [vert, uv]
    face_select,    \* the set of selected face indices (f.select)
    use_selected,   \* the use_selected argument
    face_map,       \* face index -> set of uv ids
    vert_map,       \* uv id -> set of face indices
    faces_left,     \* set of face indices not yet in an island
    islands,        \* the result: a sequence of islands (sequences of faces)
    current_island, \* the island being parsed
    face_indices,   \* the frontier of parse_island_non_recursive
    isl_pc,         \* position in get_uv_islands
    \* ---- hair.selected_cards_to_length_loops ----
    card_loops,        \* per island, the loops get_ordered_coordinate_loops gave
    one_loop_per_card, \* the merge mode argument
    all_loops,         \* the result list
    merged,            \* the value merge_length_coordinate_loops returned
    mrg_i,             \* the island being processed
    mrg_pc,            \* position in selected_cards_to_length_loops
    \* ---- hair: the armature and the bone generating operations ----
    edit_bones,          \* arm.data.edit_bones, a sequence of bones
    arm_scale,           \* arm.scale
    arm_mode,            \* the mode of the armature, "OBJECT" or "EDIT"
    bone_selection_mode, \* props.hair_rig_bind_bone_mode
    arg_bone_length,     \* the bone_length argument
    arg_skip_length,     \* the skip_length argument
    arg_parent_mode,     \* the parent_mode argument, "HEAD" or "JAW"
    rig_op,              \* the operation that is running
    gen_loops,           \* loops, the generation list of the operation
    rig_pc,              \* position in the operation
    old_bones,           \* edit_bones before the last step
    old_loops,           \* the generation list before the last step
    next_index,          \* loop_index of the operation
    loop_i,              \* the loop of the list that comes next
    made_bones,          \* new_bones, the names of the bones it made
    last_call,           \* the last call that made a chain, and its result
    used_indices,        \* the indices of the chains made by the operation
    dup_head_rig,        \* head_rig of remove_duplicate_bones
    dup_jaw_rig,         \* jaw_rig of remove_duplicate_bones
    ops_done,            \* the number of operations started
    \* ---- hair: binding the cards to the bones (BIND_TO_BONES) ----
    bind_cards,     \* cards, as get_hair_cards_lateral gives them
    bone_chains,    \* bone_chains, as get_bone_chains gives them
    bind_args,      \* the properties the operator passes on, and the seed
    random_state,   \* the state of the generator of the random module
    weights,        \* the deform layer: <<vertex, bone name>> -> weight
    card_writes,    \* the writes of the last weight_card_to_bones, in order
    first_weights,  \* the weights the first run of the operator left
    bind_card,      \* the card of assign_bones that comes next
    bind_run,       \* "first" or "second": the run of the operator
    bind_pc,        \* position in the operator
    \* ---- hair.distance_from_line ----
    line_co,        \* the argument co
    line_start,     \* the argument start
    line_end,       \* the argument end
    line_result,    \* the value returned
    line_pc,        \* "ready" before the call, "returned" after it
    \* ---- hair.loop_length and hair.eval_loop_at ----
    poly_loop,      \* the argument loop
    poly_fac,       \* the argument fac, <<numerator, denominator>>
    poly_length,    \* the value loop_length returned
    poly_point,     \* the value eval_loop_at returned
    poly_pc,        \* "ready", "measured" or "returned"
    \* ---- hair.get_vert_loops / get_ordered_coordinate_loops ----
    loop_edges,     \* edges, the filtered edges of the island
    edge_map,       \* edge index -> the edges linked to it
    edges_left,     \* the edges not yet in a loop
    loop_verts,     \* loop, the vertex set parse_loop fills
    vert_loops,     \* the result, a sequence of vertex sets
    call_stack,     \* the calls of parse_loop that are running
    loops_pc,       \* position in get_vert_loops
    \* ---- hair.remove_hair_bones ----
    rem_bones,      \* arm.data.edit_bones / arm.data.bones of the armature
    rem_arm_mode,   \* the mode of the armature, "OBJECT" or "EDIT"
    rem_bone_mode,  \* the bone_mode argument, "SELECTED" or "ALL"
    rem_groups,     \* object -> the names of its vertex groups
    rem_hair_bones, \* hair_bones, the list of bone names
    rem_old_bones,  \* the bones at the call
    rem_old_groups, \* the vertex groups at the call
    rem_pc,         \* position in remove_hair_bones
    \* ---- geom.get_uv_aligned_edges ----
    ae_island,      \* island, the face indices of the island
    ae_dir,         \* dir, the unit vector <<x, y>> / n as <<x, y, n>>
    ae_threshold,   \* dir_threshold, <<numerator, denominator>>
    ae_uv_map,      \* uv_map, vertex index -> uv
    ae_aligned,     \* the value returned with get_non_aligned False
    ae_lateral,     \* the value returned with get_non_aligned True
    ae_called,      \* the modes the function was called with
    \* ---- hair.sort_verts_by_uv / sort_lateral_card ----
    srt_loop,       \* loop, the vertices in the order they are iterated in
    srt_loops,      \* loops, the lateral loops of a card (vertex sets)
    srt_dir,        \* dir, the unit vector <<x, y>> / n as <<x, y, n>>
    srt_sorted,     \* the vertices in the order sort_verts_by_uv returns
    srt_card,       \* card["loops"] as sort_lateral_card returns it
    srt_pc,         \* "verts" or "card" before the call, "sorted" after
    \* ---- hair.convert_hair_rigs_to_accessory ----
    acc_groups,     \* object -> the names of its vertex groups, in order
    acc_old_groups, \* the vertex groups at the call
    groups_to_remove, \* groups_to_remove, a list of <<object, name>>
    acc_k,          \* the place in groups_to_remove of the loop of line 1564
    acc_pc,         \* position in convert_hair_rigs_to_accessory
    \* ---- Joining grease-pencil strokes (combine_strokes, find_stroke_set_root, stroke_root_to_loop) ----
    strokes,        \* the frame's strokes, each <<first point, last point>>
    stroke_set,     \* stroke -> <<next_strokes, prev_strokes>>
    stroke_roots,   \* the roots found so far
    stk_k,          \* index of the stroke the loop of combine_strokes is at
    stk_stroke,     \* the stroke of the innermost call
    done,           \* the done list of find_stroke_set_root
    stk_depth,      \* depth of the recursion
    stk_loop,       \* the strokes whose points the loop holds, in order
    stk_roots_left, \* roots not yet turned into loops
    stk_pc          \* position in greased_pencil_to_length_loops

varsIsl == <<bm_faces, face_select, use_selected, face_map, vert_map,
             faces_left, islands, current_island, face_indices, isl_pc>>

varsMrg == <<card_loops, one_loop_per_card, all_loops, merged, mrg_i, mrg_pc>>

varsRig == <<edit_bones, arm_scale, arm_mode, bone_selection_mode,
             arg_bone_length, arg_skip_length, arg_parent_mode, rig_op,
             gen_loops, rig_pc, old_bones, old_loops, next_index, loop_i,
             made_bones, last_call, used_indices, dup_head_rig, dup_jaw_rig,
             ops_done>>

varsBind == <<bind_cards, bone_chains, bind_args, random_state, weights,
              card_writes, first_weights, bind_card, bind_run, bind_pc>>

varsLine == <<line_co, line_start, line_end, line_result, line_pc>>

varsPoly == <<poly_loop, poly_fac, poly_length, poly_point, poly_pc>>

varsLoops == <<loop_edges, edge_map, edges_left, loop_verts, vert_loops,
               call_stack, loops_pc>>

varsRem == <<rem_bones, rem_arm_mode, rem_bone_mode, rem_groups,
             rem_hair_bones, rem_old_bones, rem_old_groups, rem_pc>>

varsEdges ==
    <<ae_island, ae_dir, ae_threshold, ae_uv_map, ae_aligned, ae_lateral,
      ae_called>>

varsSort ==
    <<srt_loop, srt_loops, srt_dir, srt_sorted, srt_card, srt_pc>>

varsAcc ==
    <<acc_groups, acc_old_groups, groups_to_remove, acc_k, acc_pc>>

varsStrokes ==
    <<strokes, stroke_set, stroke_roots, stk_k, stk_stroke, done, stk_depth,
      stk_loop, stk_roots_left, stk_pc>>

vars ==
    <<varsIsl, varsMrg, varsRig, varsBind, varsLine, varsPoly, varsLoops, varsRem, varsEdges, varsSort, varsAcc,
      varsStrokes>>

\* What the actions of one part leave unchanged: the other parts.
otherThanIsl ==
    <<varsMrg, varsRig, varsBind, varsLine, varsPoly, varsLoops, varsRem, varsEdges, varsSort, varsAcc,
      varsStrokes>>

otherThanMrg ==
    <<varsIsl, varsRig, varsBind, varsLine, varsPoly, varsLoops, varsRem, varsEdges, varsSort, varsAcc,
      varsStrokes>>

otherThanRig ==
    <<varsIsl, varsMrg, varsBind, varsLine, varsPoly, varsLoops, varsRem, varsEdges, varsSort, varsAcc,
      varsStrokes>>

otherThanBind ==
    <<varsIsl, varsMrg, varsRig, varsLine, varsPoly, varsLoops, varsRem, varsEdges, varsSort, varsAcc,
      varsStrokes>>

otherThanLine ==
    <<varsIsl, varsMrg, varsRig, varsBind, varsPoly, varsLoops, varsRem, varsEdges, varsSort, varsAcc,
      varsStrokes>>

otherThanPoly ==
    <<varsIsl, varsMrg, varsRig, varsBind, varsLine, varsLoops, varsRem, varsEdges, varsSort, varsAcc,
      varsStrokes>>

otherThanLoops ==
    <<varsIsl, varsMrg, varsRig, varsBind, varsLine, varsPoly, varsRem, varsEdges, varsSort, varsAcc,
      varsStrokes>>

otherThanRem ==
    <<varsIsl, varsMrg, varsRig, varsBind, varsLine, varsPoly, varsLoops, varsEdges, varsSort, varsAcc,
      varsStrokes>>

otherThanEdges ==
    <<varsIsl, varsMrg, varsRig, varsBind, varsLine, varsPoly, varsLoops, varsRem, varsSort, varsAcc,
      varsStrokes>>

otherThanSort ==
    <<varsIsl, varsMrg, varsRig, varsBind, varsLine, varsPoly, varsLoops, varsRem, varsEdges, varsAcc,
      varsStrokes>>

otherThanAcc ==
    <<varsIsl, varsMrg, varsRig, varsBind, varsLine, varsPoly, varsLoops, varsRem, varsEdges, varsSort,
      varsStrokes>>

otherThanStrokes ==
    <<varsIsl, varsMrg, varsRig, varsBind, varsLine, varsPoly, varsLoops, varsRem, varsEdges, varsSort, varsAcc>>


(***************************************************************************)
(* The idle state of each part: what its variables hold under the          *)
(* specifications of the other parts.                                      *)
(***************************************************************************)
\* A Python value that is None or a list: bool(v) is TRUE for a list that
\* is not empty.
NoneValue == [none |-> TRUE, list |-> <<>>]

ListValue(l) == [none |-> FALSE, list |-> l]

Truthy(v) == ~v.none /\ v.list # <<>>

IslIdle ==
    /\ bm_faces = <<>>
    /\ face_select = {}
    /\ use_selected = FALSE
    /\ face_map = <<>>
    /\ vert_map = <<>>
    /\ faces_left = {}
    /\ islands = <<>>
    /\ current_island = <<>>
    /\ face_indices = {}
    /\ isl_pc = "idle"

MrgIdle ==
    /\ card_loops = <<>>
    /\ one_loop_per_card = FALSE
    /\ all_loops = <<>>
    /\ merged = NoneValue
    /\ mrg_i = 0
    /\ mrg_pc = "idle"

\* A rig variable that holds no edit bone: the bone is <<>> (None), and
\* live says whether the value was looked up in the edit session that is
\* open now.
NoHandle == [bone |-> <<>>, live |-> FALSE]

\* No call has made a chain yet.
NoCall ==
    [start |-> 0, index |-> 0, ok |-> FALSE, loop |-> <<>>, made |-> <<>>,
     before |-> <<>>]

\* The variables of an operation that is not running.
RigAtRest ==
    /\ arg_parent_mode = "HEAD"
    /\ rig_op = "none"
    /\ gen_loops = <<>>
    /\ rig_pc = "idle"
    /\ old_bones = <<>>
    /\ old_loops = <<>>
    /\ next_index = 0
    /\ loop_i = 0
    /\ made_bones = <<>>
    /\ last_call = NoCall
    /\ used_indices = <<>>
    /\ dup_head_rig = NoHandle
    /\ dup_jaw_rig = NoHandle

RigIdle ==
    /\ edit_bones = <<>>
    /\ arm_scale = <<1, 1, 1>>
    /\ arm_mode = "OBJECT"
    /\ bone_selection_mode = "ALL"
    /\ arg_bone_length = 0
    /\ arg_skip_length = 0
    /\ ops_done = 0
    /\ RigAtRest

BindIdle ==
    /\ bind_cards = <<>>
    /\ bone_chains = <<>>
    /\ bind_args = <<>>
    /\ random_state = 0
    /\ weights = <<>>
    /\ card_writes = <<>>
    /\ first_weights = <<>>
    /\ bind_card = 0
    /\ bind_run = "first"
    /\ bind_pc = "idle"

LineIdle ==
    /\ line_co = <<0, 0, 0>>
    /\ line_start = <<0, 0, 0>>
    /\ line_end = <<0, 0, 0>>
    /\ line_result = <<>>
    /\ line_pc = "idle"

PolyIdle ==
    /\ poly_loop = <<>>
    /\ poly_fac = <<0, 1>>
    /\ poly_length = 0
    /\ poly_point = <<>>
    /\ poly_pc = "idle"

LoopsIdle ==
    /\ loop_edges = {}
    /\ edge_map = <<>>
    /\ edges_left = {}
    /\ loop_verts = {}
    /\ vert_loops = <<>>
    /\ call_stack = <<>>
    /\ loops_pc = "idle"

RemIdle ==
    /\ rem_bones = <<>>
    /\ rem_arm_mode = "OBJECT"
    /\ rem_bone_mode = "ALL"
    /\ rem_groups = <<>>
    /\ rem_hair_bones = <<>>
    /\ rem_old_bones = <<>>
    /\ rem_old_groups = <<>>
    /\ rem_pc = "idle"

EdgesIdle ==
    /\ ae_island = {}
    /\ ae_dir = <<0, 1, 1>>
    /\ ae_threshold = <<9, 10>>
    /\ ae_uv_map = <<>>
    /\ ae_aligned = {}
    /\ ae_lateral = {}
    /\ ae_called = {}

SortIdle ==
    /\ srt_loop = <<>>
    /\ srt_loops = <<>>
    /\ srt_dir = <<0, 1, 1>>
    /\ srt_sorted = <<>>
    /\ srt_card = <<>>
    /\ srt_pc = "idle"

AccIdle ==
    /\ acc_groups = <<>>
    /\ acc_old_groups = <<>>
    /\ groups_to_remove = <<>>
    /\ acc_k = 0
    /\ acc_pc = "idle"

StrokesIdle ==
    /\ strokes = <<>>
    /\ stroke_set = <<>>
    /\ stroke_roots = {}
    /\ stk_k = 0
    /\ stk_stroke = 0
    /\ done = <<>>
    /\ stk_depth = 0
    /\ stk_loop = <<>>
    /\ stk_roots_left = {}
    /\ stk_pc = "idle"

(***************************************************************************)
(* geom.py: UV islands.                                                    *)
(* UV coordinates are held in units of 10^-6; to_tuple(5) rounds each      *)
(* component to 5 decimals, that is to a multiple of 10 units.             *)
(***************************************************************************)
Faces == 1 .. NumFaces

Verts == {1, 2}

\* The loops a face may have: vertex 1 at one of three uv coordinates, two
\* of which round to the same tuple, vertex 2 at one of two.
LoopPoints ==
    [vert : {1}, uv : {<<0, 0>>, <<4, 0>>, <<6, 0>>}]
        \cup [vert : {2}, uv : {<<0, 0>>, <<6, 0>>}]

\* Round half to even of c / 10 (c >= 0), the result in units of 10^-5.
Round5(c) ==
    LET q == c \div 10
        r == c % 10
    IN  IF r < 5 THEN q
        ELSE IF r > 5 THEN q + 1
        ELSE IF q % 2 = 0 THEN q ELSE q + 1

\* loop[ul].uv.to_tuple(5)
ToTuple5(uv) == <<Round5(uv[1]), Round5(uv[2])>>

\* A uv id that leaves the vertex index out.
UvIdNoVert(loop) == <<ToTuple5(loop.uv), 0>>

\* uv_id = loop[ul].uv.to_tuple(5), loop.vert.index
UvId(loop) == <<ToTuple5(loop.uv), loop.vert>>

\* The faces get_uv_islands considers.
ConsideredFaces == IF use_selected THEN face_select ELSE Faces

\* The frontier of the next level without the test on the island.
NextIndicesNoTest(fi, island, fmap, vmap) ==
    UNION {UNION {vmap[id] : id \in fmap[f]} : f \in fi}

\* next_indices of one iteration of parse_island_non_recursive: the faces
\* connected to the frontier through a uv id that are not in the island.
NextIndices(fi, island, fmap, vmap) ==
    {cf \in UNION {UNION {vmap[id] : id \in fmap[f]} : f \in fi} :
        cf \notin Range(island)}

\* The loops of one face: one loop per vertex of the face, each with its own
\* uv coordinate (the corners of a face are distinct vertices).
FaceLoops ==
    {s \in SUBSET LoopPoints :
        /\ Cardinality(s) = Cardinality(Verts)
        /\ \A v \in Verts : \E l \in s : l.vert = v}

\* Any mesh over Faces, any selection, both values of use_selected.
IslInit ==
    /\ bm_faces \in [Faces -> FaceLoops]
    /\ face_select \in SUBSET Faces
    /\ use_selected \in BOOLEAN
    /\ face_map = <<>>
    /\ vert_map = <<>>
    /\ faces_left = {}
    /\ islands = <<>>
    /\ current_island = <<>>
    /\ face_indices = {}
    /\ isl_pc = "maps"
    /\ MrgIdle
    /\ RigIdle
    /\ BindIdle
    /\ LineIdle
    /\ PolyIdle
    /\ LoopsIdle
    /\ RemIdle
    /\ EdgesIdle
    /\ SortIdle
    /\ AccIdle
    /\ StrokesIdle

\* get_uv_islands, lines 294-316: the two maps and faces_left.
BuildMaps ==
    /\ isl_pc = "maps"
    /\ LET faces == ConsideredFaces
           ids   == {UvId(l) : l \in UNION {bm_faces[f] : f \in faces}}
           fmap  == [f \in faces |-> {UvId(l) : l \in bm_faces[f]}]
       IN  /\ face_map' = fmap
           /\ vert_map' = [id \in ids |-> {f \in faces : id \in fmap[f]}]
           /\ faces_left' = DOMAIN fmap
    /\ islands' = <<>>
    /\ isl_pc' = "loop"
    /\ UNCHANGED <<bm_faces, face_select, use_selected, current_island,
                   face_indices>>
    /\ UNCHANGED otherThanIsl

\* get_uv_islands, lines 318-322: seed a new island with any face left.
StartIsland ==
    /\ isl_pc = "loop"
    /\ faces_left # {}
    /\ \E face_index \in faces_left :
           face_indices' = {face_index}
    /\ current_island' = <<>>
    /\ isl_pc' = "parse"
    /\ UNCHANGED <<bm_faces, face_select, use_selected, face_map, vert_map,
                   faces_left, islands>>
    /\ UNCHANGED otherThanIsl

\* parse_island_non_recursive, one iteration of the while loop
\* (lines 263-276).  faces_left.remove raises KeyError for a face that is
\* not in faces_left.
ParseLevel ==
    /\ isl_pc = "parse"
    /\ face_indices # {}
    /\ IF face_indices \subseteq faces_left
       THEN LET island == current_island \o SetToSeq(face_indices)
            IN  /\ faces_left' = faces_left \ face_indices
                /\ current_island' = island
                /\ face_indices' =
                       NextIndices(face_indices, island, face_map, vert_map)
                /\ isl_pc' = "parse"
       ELSE /\ isl_pc' = "raised"
            /\ UNCHANGED <<faces_left, current_island, face_indices>>
    /\ UNCHANGED <<bm_faces, face_select, use_selected, face_map, vert_map,
                   islands>>
    /\ UNCHANGED otherThanIsl

\* get_uv_islands, line 324: the frontier is empty, the island is complete.
FinishIsland ==
    /\ isl_pc = "parse"
    /\ face_indices = {}
    /\ islands' = Append(islands, current_island)
    /\ isl_pc' = "loop"
    /\ UNCHANGED <<bm_faces, face_select, use_selected, face_map, vert_map,
                   faces_left, current_island, face_indices>>
    /\ UNCHANGED otherThanIsl

\* get_uv_islands, line 326: return islands.
ReturnIslands ==
    /\ isl_pc = "loop"
    /\ faces_left = {}
    /\ isl_pc' = "done"
    /\ UNCHANGED <<bm_faces, face_select, use_selected, face_map, vert_map,
                   faces_left, islands, current_island, face_indices>>
    /\ UNCHANGED otherThanIsl

IslNext ==
    \/ BuildMaps
    \/ StartIsland
    \/ ParseLevel
    \/ FinishIsland
    \/ ReturnIslands

SpecIslands == IslInit /\ [][IslNext]_vars

(***************************************************************************)
(* Claims about get_uv_islands.                                            *)
(***************************************************************************)
\* How often face f occurs in the returned islands, over all islands.
RECURSIVE TotalOccurrences(_, _)
TotalOccurrences(isls, f) ==
    IF isls = <<>> THEN 0
    ELSE Occurrences(Head(isls), f) + TotalOccurrences(Tail(isls), f)

\* C1: the islands returned by get_uv_islands partition the considered
\* faces: the call returns without raising, every considered face occurs
\* exactly once over all the islands, and no other face occurs in an island.
C1_IslandsPartition ==
    /\ isl_pc # "raised"
    /\ isl_pc = "done" =>
           /\ \A f \in ConsideredFaces : TotalOccurrences(islands, f) = 1
           /\ \A f \in Faces \ ConsideredFaces :
                  TotalOccurrences(islands, f) = 0

\* C1 witness: a selection that leaves a face out, returned as two islands.
C1_Witness ==
    /\ isl_pc = "done"
    /\ use_selected
    /\ Cardinality(face_select) = NumFaces - 1
    /\ Len(islands) = 2

\* Two faces share a uv id: a loop of each on the same vertex, with uv
\* coordinates that agree when rounded to 5 decimals.
SharesUvId(f, g) ==
    \E l1 \in bm_faces[f], l2 \in bm_faces[g] :
        /\ l1.vert = l2.vert
        /\ ToTuple5(l1.uv) = ToTuple5(l2.uv)

\* The considered faces reachable from the faces of S by chains of
\* considered faces in which consecutive faces share a uv id.
RECURSIVE ChainClosure(_)
ChainClosure(S) ==
    LET T == S \cup {g \in ConsideredFaces : \E f \in S : SharesUvId(f, g)}
    IN  IF T = S THEN S ELSE ChainClosure(T)

SameIsland(f, g) ==
    \E k \in DOMAIN islands : f \in Range(islands[k]) /\ g \in Range(islands[k])

\* C2: two considered faces are in the same returned island exactly when a
\* chain of considered faces, consecutive ones sharing a uv id, joins them;
\* a face that shares no uv id with another one is an island of its own.
C2_IslandsAreChains ==
    isl_pc = "done" =>
        /\ \A f \in ConsideredFaces :
               LET chained == ChainClosure({f})
               IN  \A g \in ConsideredFaces :
                       SameIsland(f, g) <=> g \in chained
        /\ \A f \in ConsideredFaces :
               (\A g \in ConsideredFaces \ {f} : ~SharesUvId(f, g))
                   => \E k \in DOMAIN islands : islands[k] = <<f>>

\* C2 witness: an island of three faces two of which share no uv id (they
\* are joined only through the third), reached with a vertex whose two uv
\* coordinates differ before rounding and agree after it.
C2_Witness ==
    /\ isl_pc = "done"
    /\ \E k \in DOMAIN islands :
           /\ Len(islands[k]) = 3
           /\ \E f, g \in Range(islands[k]) : f # g /\ ~SharesUvId(f, g)
    /\ \E f, g \in ConsideredFaces :
           \E l1 \in bm_faces[f], l2 \in bm_faces[g] :
               l1.vert = l2.vert /\ l1.uv # l2.uv /\ UvId(l1) = UvId(l2)

(***************************************************************************)
(* hair.py: merging the loops of a card.                                   *)
(* Points are vectors of whole units; the coordinates of the loops below   *)
(* are multiples of 12, so that the mean of up to four loops is a whole    *)
(* number of units and co /= num is exact.                                 *)
(***************************************************************************)
VecAdd(a, b) == <<a[1] + b[1], a[2] + b[2], a[3] + b[3]>>

VecSub(a, b) == <<a[1] - b[1], a[2] - b[2], a[3] - b[3]>>

VecScale(a, k) == <<a[1] * k, a[2] * k, a[3] * k>>

VecDiv(a, n) == <<a[1] \div n, a[2] \div n, a[3] \div n>>

\* co: the sum of the i-th points of loops[1 .. l] (lines 292-294).
RECURSIVE SumAt(_, _, _)
SumAt(loops, l, i) ==
    IF l = 0 THEN <<0, 0, 0>>
    ELSE VecAdd(SumAt(loops, l - 1, i), loops[l][i])

\* A merge that divides the sum by the size of the loops.
MergeDivBySize(loops) ==
    LET size == Len(loops[1])
        num  == Len(loops)
    IN  IF \E l \in 1 .. num : Len(loops[l]) # size
        THEN NoneValue
        ELSE ListValue([i \in 1 .. size |->
                            VecDiv(SumAt(loops, num, i), size)])

\* merge_length_coordinate_loops(loops), loops not empty.
MergeLengthCoordinateLoops(loops) ==
    LET size == Len(loops[1])
        num  == Len(loops)
    IN  IF \E l \in 1 .. num : Len(loops[l]) # size
        THEN NoneValue
        ELSE ListValue([i \in 1 .. size |->
                            VecDiv(SumAt(loops, num, i), num)])

\* merge_length_coordinate_loops(loops) raises: loops[0] of an empty list
\* at line 282 is an IndexError.
MergeRaises(loops) == loops = <<>>

\* An emit step that falls back to the single loops when the merge failed.
EmitLoopsIndividually(all, loops, m, one) ==
    IF one /\ Truthy(m) THEN Append(all, m.list) ELSE all \o loops

\* selected_cards_to_length_loops, lines 383-391: what one island adds to
\* all_loops.
EmitLoops(all, loops, m, one) ==
    IF one
    THEN IF Truthy(m) THEN Append(all, m.list) ELSE all
    ELSE all \o loops

\* The ordered loops an island may yield.
LoopChoices ==
    { << <<0, 0, 0>>, <<12, 0, 0>> >>,
      << <<0, 12, 24>>, <<12, 24, 0>> >>,
      << <<0, 0, 12>>, <<0, 12, 12>>, <<24, 12, 12>> >> }

\* An island without an edge along the card direction yields no loop.
IslandLoopLists ==
    UNION {[1 .. n -> LoopChoices] : n \in 0 .. MaxLoops}

\* Two islands, each with up to MaxLoops loops, in either mode.
MrgInit ==
    /\ card_loops \in [1 .. 2 -> IslandLoopLists]
    /\ one_loop_per_card \in BOOLEAN
    /\ all_loops = <<>>
    /\ merged = NoneValue
    /\ mrg_i = 1
    /\ mrg_pc = "island"
    /\ IslIdle
    /\ RigIdle
    /\ BindIdle
    /\ LineIdle
    /\ PolyIdle
    /\ LoopsIdle
    /\ RemIdle
    /\ EdgesIdle
    /\ SortIdle
    /\ AccIdle
    /\ StrokesIdle

\* for island in islands (line 360), in merge mode: line 384.
MergeIsland ==
    /\ mrg_pc = "island"
    /\ mrg_i <= Len(card_loops)
    /\ one_loop_per_card
    /\ ~MergeRaises(card_loops[mrg_i])
    /\ merged' = MergeLengthCoordinateLoops(card_loops[mrg_i])
    /\ mrg_pc' = "emit"
    /\ UNCHANGED <<card_loops, one_loop_per_card, all_loops, mrg_i>>
    /\ UNCHANGED otherThanMrg

\* Line 384 for an island without loops: the exception leaves
\* selected_cards_to_length_loops, which catches nothing.
MergeIslandRaises ==
    /\ mrg_pc = "island"
    /\ mrg_i <= Len(card_loops)
    /\ one_loop_per_card
    /\ MergeRaises(card_loops[mrg_i])
    /\ mrg_pc' = "raised"
    /\ UNCHANGED <<card_loops, one_loop_per_card, all_loops, merged, mrg_i>>
    /\ UNCHANGED otherThanMrg

\* Line 383, not in merge mode: nothing is merged.
SkipMerge ==
    /\ mrg_pc = "island"
    /\ mrg_i <= Len(card_loops)
    /\ ~one_loop_per_card
    /\ mrg_pc' = "emit"
    /\ UNCHANGED <<card_loops, one_loop_per_card, all_loops, merged, mrg_i>>
    /\ UNCHANGED otherThanMrg

\* Lines 385-391, and on to the next island.
EmitIsland ==
    /\ mrg_pc = "emit"
    /\ all_loops' = EmitLoops(all_loops, card_loops[mrg_i], merged,
                              one_loop_per_card)
    /\ mrg_i' = mrg_i + 1
    /\ mrg_pc' = "island"
    /\ UNCHANGED <<card_loops, one_loop_per_card, merged>>
    /\ UNCHANGED otherThanMrg

\* Line 403: return all_loops.
ReturnLoops ==
    /\ mrg_pc = "island"
    /\ mrg_i > Len(card_loops)
    /\ mrg_pc' = "done"
    /\ UNCHANGED <<card_loops, one_loop_per_card, all_loops, merged, mrg_i>>
    /\ UNCHANGED otherThanMrg

MrgNext ==
    \/ MergeIsland
    \/ MergeIslandRaises
    \/ SkipMerge
    \/ EmitIsland
    \/ ReturnLoops

SpecMerge == MrgInit /\ [][MrgNext]_vars

(***************************************************************************)
(* Claims about merging.                                                   *)
(***************************************************************************)
SameSizes(loops) == \A l \in DOMAIN loops : Len(loops[l]) = Len(loops[1])

\* C4: merge_length_coordinate_loops returns a polyline exactly when all the
\* loops have the same number of points; the polyline has that number of
\* points and its i-th point is the mean of the loops' i-th points (num
\* times the point is their sum); otherwise it returns None.
C4_MergeIsMean ==
    mrg_pc = "emit" /\ one_loop_per_card =>
        LET loops == card_loops[mrg_i]
            num   == Len(loops)
        IN  /\ ~merged.none <=> SameSizes(loops)
            /\ ~merged.none =>
                   /\ Len(merged.list) = Len(loops[1])
                   /\ \A i \in DOMAIN merged.list :
                          VecScale(merged.list[i], num) = SumAt(loops, num, i)
            /\ merged.none => merged = NoneValue

\* C4 witness: three loops of equal size, not all the same, were merged.
C4_Witness ==
    /\ mrg_pc = "emit"
    /\ one_loop_per_card
    /\ Len(card_loops[mrg_i]) = 3
    /\ card_loops[mrg_i][1] # card_loops[mrg_i][2]
    /\ ~merged.none

\* The loops of sequence loops all occur in the sequence all.
AllEmitted(loops, all) == \A l \in DOMAIN loops : loops[l] \in Range(all)

RECURSIVE MergedOnly(_, _)
MergedOnly(cl, k) ==
    IF k = 0 THEN <<>>
    ELSE IF SameSizes(cl[k])
         THEN Append(MergedOnly(cl, k - 1),
                     [i \in 1 .. Len(cl[k][1]) |->
                         VecDiv(SumAt(cl[k], Len(cl[k]), i), Len(cl[k]))])
         ELSE MergedOnly(cl, k - 1)

RECURSIVE MergedOfOthers(_, _)
MergedOfOthers(cl, k) ==
    IF k = 0 THEN <<>>
    ELSE IF cl[k] # <<>> /\ SameSizes(cl[k])
         THEN Append(MergedOfOthers(cl, k - 1),
                     [i \in 1 .. Len(cl[k][1]) |->
                         VecDiv(SumAt(cl[k], Len(cl[k]), i), Len(cl[k]))])
         ELSE MergedOfOthers(cl, k - 1)

\* C12: in merge mode selected_cards_to_length_loops passes over an island
\* that yields no loop along the card direction: the call does not raise,
\* it goes on with the other islands and returns their loops.
C12_EmptyIslandSkipped ==
    one_loop_per_card
        => /\ mrg_pc # "raised"
           /\ mrg_pc = "done"
                  => all_loops = MergedOfOthers(card_loops, Len(card_loops))

(***************************************************************************)
(* hair.py: the armature.                                                  *)
(* A bone name is the sequence of its parts between underscores, so        *)
(* "RL_Hair_1_0" is <<"RL", "Hair", "1", "0">>.  arm.data.edit_bones is a  *)
(* sequence of bones in the order of the collection; the children of a     *)
(* bone are the bones that name it as parent, in that order.  A bone       *)
(* without parent has parent NoBone.                                       *)
(***************************************************************************)
HEAD_RIG_NAME == <<"RL", "Hair", "Rig", "Head">>

JAW_RIG_NAME == <<"RL", "Hair", "Rig", "Jaw">>

HAIR_BONE_PREFIX == <<"RL", "Hair">>

BEARD_BONE_PREFIX == <<"RL", "Beard">>

HEAD_BONE_NAMES ==
    << <<"CC", "Base", "Head">>, <<"RL", "Head">>, <<"Head">>, <<"head">> >>

JAW_BONE_NAMES ==
    << <<"CC", "Base", "JawRoot">>, <<"RL", "JawRoot">>, <<"JawRoot">> >>

EYE_BONE_NAMES ==
    << <<"CC", "Base", "R", "Eye">>, <<"CC", "Base", "L", "Eye">>,
       <<"CC", "Base", "R", "Eye">>, <<"CC", "Base", "L", "Eye">> >>

NoBone == <<>>

\* str(i) of an f-string, for the indices of the model.
Str(i) == <<"0", "1", "2", "3", "4", "5", "6", "7", "8", "9">>[i + 1]

\* name.startswith(prefix), both joined with underscores: the parts of the
\* prefix are the first parts of the name.
StartsWith(name, prefix) ==
    /\ Len(name) >= Len(prefix)
    /\ SubSeq(name, 1, Len(prefix)) = prefix

\* name.startswith(prefix + "_"): the name goes on after the prefix.
StartsWithUnderscore(name, prefix) ==
    /\ Len(name) > Len(prefix)
    /\ SubSeq(name, 1, Len(prefix)) = prefix

Bone(name, parent, head, tail) ==
    [name |-> name, parent |-> parent, head |-> head, tail |-> tail,
     select |-> FALSE, connect |-> FALSE]

BoneNames(bs) == {bs[i].name : i \in DOMAIN bs}

\* name in arm.data.edit_bones
HasBone(bs, name) == name \in BoneNames(bs)

\* arm.data.edit_bones[name], for a name in the collection.
GetBone(bs, name) == bs[CHOOSE i \in DOMAIN bs : bs[i].name = name]

\* bone.children: the names of the children of the bone, in order.
Children(bs, name) ==
    LET IsChild(b) == b.parent = name
        kids == SelectSeq(bs, IsChild)
    IN  [i \in DOMAIN kids |-> kids[i].name]

\* bones.new_edit_bone(arm, name, parent_name): a new bone at the end of the
\* collection, child of the named parent.
NewEditBone(bs, name, parent) ==
    Append(bs, Bone(name, parent, <<0, 0, 0>>, <<0, 0, 0>>))

\* arm.data.edit_bones.remove(bone): the bone goes, its children become
\* unconnected children of its parent.
RemoveEditBone(bs, name) ==
    LET gone == GetBone(bs, name)
        Keep(b) == b.name # name
        rest == SelectSeq(bs, Keep)
    IN  [i \in DOMAIN rest |->
            IF rest[i].parent = name
            THEN [rest[i] EXCEPT !.parent = gone.parent, !.connect = FALSE]
            ELSE rest[i]]

\* The first name of the sequence names that is a bone of bs, or NoBone.
RECURSIVE FirstPresent(_, _)
FirstPresent(names, bs) ==
    IF names = <<>> THEN NoBone
    ELSE IF HasBone(bs, Head(names)) THEN Head(names)
         ELSE FirstPresent(Tail(names), bs)

\* get_root_bone_name(chr_cache, arm, parent_mode); NoBone stands for None.
GetRootBoneName(bs, parent_mode) ==
    IF parent_mode = "HEAD" THEN FirstPresent(HEAD_BONE_NAMES, bs)
    ELSE IF parent_mode = "JAW" THEN FirstPresent(JAW_BONE_NAMES, bs)
    ELSE NoBone

\* get_hair_bone_prefix(parent_mode)
GetHairBonePrefix(parent_mode) ==
    IF parent_mode = "JAW" THEN BEARD_BONE_PREFIX ELSE HAIR_BONE_PREFIX

\* is_hair_bone(bone_name)
IsHairBone(name) ==
    StartsWith(name, HAIR_BONE_PREFIX) \/ StartsWith(name, BEARD_BONE_PREFIX)

\* is_hair_rig_bone(bone_name)
IsHairRigBone(name) ==
    StartsWith(name, HEAD_RIG_NAME) \/ StartsWith(name, JAW_RIG_NAME)

\* The name of the rig root of a parent mode (get_hair_rig, lines 542-545).
HairRigName(parent_mode) ==
    IF parent_mode = "JAW" THEN JAW_RIG_NAME ELSE HEAD_RIG_NAME

\* contains_hair_bone_chain(arm, loop_index, prefix)
ContainsHairBoneChain(bs, loop_index, prefix) ==
    \E i \in DOMAIN bs :
        StartsWithUnderscore(bs[i].name, prefix \o <<Str(loop_index)>>)

\* An index search that takes the start index as it is.
FindUnusedNoScan(bs, loop_index, prefix) == loop_index

\* find_unused_hair_bone_index(arm, loop_index, prefix)
RECURSIVE FindUnusedHairBoneIndex(_, _, _)
FindUnusedHairBoneIndex(bs, loop_index, prefix) ==
    IF ContainsHairBoneChain(bs, loop_index, prefix)
    THEN FindUnusedHairBoneIndex(bs, loop_index + 1, prefix)
    ELSE loop_index

\* get_linked_bones(edit_bone, bone_list): the bone and its descendants,
\* depth first, each name once.
RECURSIVE GetLinkedBones(_, _, _)
RECURSIVE GetLinkedBonesOfAll(_, _, _)
GetLinkedBones(bs, name, bone_list) ==
    IF name \in Range(bone_list) THEN bone_list
    ELSE GetLinkedBonesOfAll(bs, Children(bs, name), Append(bone_list, name))

GetLinkedBonesOfAll(bs, kids, bone_list) ==
    IF kids = <<>> THEN bone_list
    ELSE GetLinkedBonesOfAll(bs, Tail(kids),
                             GetLinkedBones(bs, Head(kids), bone_list))

\* Remove the named bones that are still in the collection, one by one
\* (lines 736-742 and 690-696).
RECURSIVE RemoveBones(_, _)
RemoveBones(bs, names) ==
    IF names = <<>> THEN bs
    ELSE RemoveBones(IF HasBone(bs, Head(names))
                     THEN RemoveEditBone(bs, Head(names))
                     ELSE bs,
                     Tail(names))

(***************************************************************************)
(* hair.py: geometry.                                                      *)
(* Lengths and coordinates are whole numbers of units of 0.00025 m, so     *)
(* 0.001 m is 4 units and 1 m is 4000 units.  The segments of the loops of *)
(* the model have whole lengths, and a fraction of a loop's length is held *)
(* as a pair <<numerator, denominator>>.                                   *)
(***************************************************************************)
Abs(x) == IF x < 0 THEN -x ELSE x

Dot(a, b) == a[1] * b[1] + a[2] * b[2] + a[3] * b[3]

Cross(a, b) ==
    <<a[2] * b[3] - a[3] * b[2],
      a[3] * b[1] - a[1] * b[3],
      a[1] * b[2] - a[2] * b[1]>>

\* The largest r in lo .. hi with r * r <= n.
RECURSIVE SqrtIn(_, _, _)
SqrtIn(n, lo, hi) ==
    IF lo >= hi THEN lo
    ELSE LET mid == (lo + hi + 1) \div 2
             fits == mid * mid <= n
         IN  SqrtIn(n, IF fits THEN mid ELSE lo, IF fits THEN hi ELSE mid - 1)

\* Vector.length, for a vector of whole length.
VecLength(v) == SqrtIn(Dot(v, v), 0, Abs(v[1]) + Abs(v[2]) + Abs(v[3]))

\* loop_length with p0 left at the first point of the loop.
RECURSIVE LoopLengthFromFirst(_, _)
LoopLengthFromFirst(loop, index) ==
    IF index <= 0 THEN 0
    ELSE LoopLengthFromFirst(loop, index - 1)
             + VecLength(VecSub(loop[index + 1], loop[1]))

\* loop_length(loop, index), index counted from 0; index = -1 is the whole
\* loop.
RECURSIVE LoopLengthTo(_, _)
LoopLengthTo(loop, index) ==
    IF index <= 0 THEN 0
    ELSE LoopLengthTo(loop, index - 1)
             + VecLength(VecSub(loop[index + 1], loop[index]))

LoopLength(loop) == LoopLengthTo(loop, Len(loop) - 1)

\* eval_loop_at(loop, length, fac) for fac = fn / fd: the walk over the
\* segments from point i (lines 436-447), a0 the arc length at point i.
RECURSIVE EvalLoopFrom(_, _, _, _, _, _)
EvalLoopFrom(loop, i, a0, length, fn, fd) ==
    IF i >= Len(loop) THEN loop[i]
    ELSE LET p0 == loop[i]
             v  == VecSub(loop[i + 1], p0)
             vl == VecLength(v)
         IN  IF fn * length <= (a0 + vl) * fd /\ fn * length >= a0 * fd
             THEN VecAdd(p0, VecDiv(VecScale(v, fn * length - a0 * fd),
                                    fd * vl))
             ELSE EvalLoopFrom(loop, i + 1, a0 + vl, length, fn, fd)

\* The greatest common divisor of two whole numbers, not both 0.
RECURSIVE Gcd(_, _)
Gcd(a, b) == IF b = 0 THEN Abs(a) ELSE Gcd(Abs(b), Abs(a) % Abs(b))

\* fac is taken in lowest terms.
EvalLoopAt(loop, length, fn, fd) ==
    EvalLoopFrom(loop, 1, 0, length, fn \div Gcd(fn, fd), fd \div Gcd(fn, fd))

\* round(n / d) of Python for n >= 0, d > 0: to the nearest whole number,
\* a tie to the even one.
RoundHalfEven(n, d) ==
    LET q == n \div d
        r == n % d
    IN  IF 2 * r < d THEN q
        ELSE IF 2 * r > d THEN q + 1
        ELSE IF q % 2 = 0 THEN q ELSE q + 1

\* Four times the skip length without the clamp.
SkipTimes4NoClamp(skip_length, length) == 4 * skip_length

\* Four times the clamped skip length: min(skip_length, 3.0 * length / 4.0)
\* (hair.py line 759).
SkipTimes4(skip_length, length) == Min2(4 * skip_length, 3 * length)

\* segments (line 760): max(1, round((length - skip_length) / bone_length)).
Segments(length, skip_length, bone_length) ==
    Max2(1, RoundHalfEven(4 * length - SkipTimes4(skip_length, length),
                          4 * bone_length))

\* arm.matrix_world @ co and arm.matrix_world.inverted() @ co for an
\* armature whose matrix is its scale.
ToWorld(co, scale) == <<co[1] * scale[1], co[2] * scale[2], co[3] * scale[3]>>

ToLocal(co, scale) ==
    <<co[1] \div scale[1], co[2] \div scale[2], co[3] \div scale[3]>>

\* bones.get_edit_bone(arm, name): the name when the bone is there, NoBone
\* for None.
GetEditBone(bs, name) == IF HasBone(bs, name) THEN name ELSE NoBone

\* The mean of the heads of the eye bones (lines 1119-1127), in world
\* space; eyes the names of EYE_BONE_NAMES that are bones.
EyePosition(bs, scale, eyes) ==
    LET SumEyes[k \in 0 .. Len(eyes)] ==
            IF k = 0 THEN <<0, 0, 0>>
            ELSE VecAdd(SumEyes[k - 1],
                        ToWorld(GetBone(bs, eyes[k]).head, scale))
    IN  VecDiv(SumEyes[Len(eyes)], Len(eyes))

\* Lines 1129-1135, for the position of the head bone and of the eyes.
RigPositionFrom(head_pos, eye_pos, count, root_mode) ==
    IF count > 0
    THEN IF root_mode = "HEAD"
         THEN [none |-> FALSE,
               co |-> <<head_pos[1], head_pos[2], eye_pos[3]>>]
         ELSE IF root_mode = "JAW"
         THEN [none |-> FALSE,
               co |-> <<head_pos[1], (head_pos[2] + 2 * eye_pos[2]) \div 3,
                        head_pos[3]>>]
         ELSE [none |-> TRUE, co |-> <<0, 0, 0>>]
    ELSE [none |-> FALSE, co |-> head_pos]

\* The eye bones of the armature.
EyeBones(bs) == SelectSeq(EYE_BONE_NAMES, LAMBDA n : HasBone(bs, n))

\* get_hair_rig_position(chr_cache, arm, root_mode): [none, co], a world
\* position or None.
GetHairRigPosition(bs, scale, root_mode) ==
    IF GetRootBoneName(bs, "HEAD") = NoBone
    THEN [none |-> TRUE, co |-> <<0, 0, 0>>]
    ELSE RigPositionFrom(
             ToWorld(GetBone(bs, GetRootBoneName(bs, "HEAD")).head, scale),
             IF Len(EyeBones(bs)) > 0
             THEN EyePosition(bs, scale, EyeBones(bs))
             ELSE <<0, 0, 0>>,
             Len(EyeBones(bs)), root_mode)

\* Set head and tail of the named bone.
PlaceBone(bs, name, head, tail) ==
    [i \in DOMAIN bs |->
        IF bs[i].name = name
        THEN [bs[i] EXCEPT !.head = head, !.tail = tail]
        ELSE bs[i]]

\* Lines 549-553 of get_hair_rig: the new rig root, pos the position for
\* it.  With no position (None), line 550 raises after the bone was
\* added.  The tail lies 1/32 m (125 units) from the head.
NewHairRig(bs, scale, hair_rig_name, pos) ==
    IF pos.none
    THEN [rig |-> hair_rig_name, bones |-> bs, raised |-> TRUE]
    ELSE [rig |-> hair_rig_name,
          bones |-> PlaceBone(bs, hair_rig_name, ToLocal(pos.co, scale),
                              ToLocal(VecAdd(pos.co, <<0, 125, 0>>), scale)),
          raised |-> FALSE]

\* A get_hair_rig that makes a rig root whenever create is set.
GetHairRigAlwaysNew(bs, scale, parent_mode, create) ==
    IF create
    THEN NewHairRig(NewEditBone(bs, HairRigName(parent_mode),
                                GetRootBoneName(bs, parent_mode)),
                    scale, HairRigName(parent_mode),
                    GetHairRigPosition(bs, scale, parent_mode))
    ELSE [rig |-> GetEditBone(bs, HairRigName(parent_mode)), bones |-> bs,
          raised |-> FALSE]

\* get_hair_rig(chr_cache, arm, parent_mode, create_if_missing):
\* [rig, bones, raised].  rig is the name of the rig root or NoBone; the
\* bone is created when it is missing and create is set.
GetHairRig(bs, scale, parent_mode, create) ==
    IF GetEditBone(bs, HairRigName(parent_mode)) = NoBone /\ create
    THEN NewHairRig(NewEditBone(bs, HairRigName(parent_mode),
                                GetRootBoneName(bs, parent_mode)),
                    scale, HairRigName(parent_mode),
                    GetHairRigPosition(bs, scale, parent_mode))
    ELSE [rig |-> GetEditBone(bs, HairRigName(parent_mode)), bones |-> bs,
          raised |-> FALSE]

\* Set the select flag of the named bone.
SelectBone(bs, name, flag) ==
    [i \in DOMAIN bs |->
        IF bs[i].name = name THEN [bs[i] EXCEPT !.select = flag] ELSE bs[i]]

\* Set use_connect of the named bone.
ConnectBone(bs, name, flag) ==
    [i \in DOMAIN bs |->
        IF bs[i].name = name THEN [bs[i] EXCEPT !.connect = flag] ELSE bs[i]]

\* The name of segment s of the chain of a loop index (line 776).
ChainBoneName(prefix, loop_index, seg) ==
    prefix \o <<Str(loop_index), Str(seg)>>

\* One bone of the for loop with use_connect left False for every bone.
MakeSegmentUnconnected(bs, scale, bone_name, parent_name, loop, length, fn, tn, fd, connect) ==
    PlaceBone(SelectBone(NewEditBone(bs, bone_name, parent_name),
                         bone_name, TRUE),
              bone_name,
              ToLocal(EvalLoopAt(loop, length, fn, fd), scale),
              ToLocal(EvalLoopAt(loop, length, tn, fd), scale))

\* One bone of the for loop of loop_to_bones (lines 776-797), its head at
\* fn / fd and its tail at tn / fd of the loop.
MakeSegment(bs, scale, bone_name, parent_name, loop, length, fn, tn, fd, connect) ==
    ConnectBone(
        PlaceBone(SelectBone(NewEditBone(bs, bone_name, parent_name),
                             bone_name, TRUE),
                  bone_name,
                  ToLocal(EvalLoopAt(loop, length, fn, fd), scale),
                  ToLocal(EvalLoopAt(loop, length, tn, fd), scale)),
        bone_name, connect)

\* The for loop of loop_to_bones (lines 775-798) from segment seg on:
\* [ok, bones, names, raised], names the list new_bones.  S4 is four times
\* the clamped skip length, so fac of segment seg is
\* (S4 * segments + seg * (4 * length - S4)) / (4 * length * segments).
RECURSIVE MakeSegments(_, _, _, _, _, _, _, _, _, _, _)
MakeSegments(bs, names, scale, prefix, loop, loop_index, length, S4, segments, seg, parent_name) ==
    IF seg >= segments
    THEN [ok |-> TRUE, bones |-> bs, names |-> names, raised |-> FALSE]
    ELSE MakeSegments(
             MakeSegment(bs, scale, ChainBoneName(prefix, loop_index, seg),
                         parent_name, loop, length,
                         S4 * segments + seg * (4 * length - S4),
                         S4 * segments + (seg + 1) * (4 * length - S4),
                         4 * length * segments, seg > 0),
             Append(names, ChainBoneName(prefix, loop_index, seg)), scale,
             prefix, loop, loop_index, length, S4, segments, seg + 1,
             ChainBoneName(prefix, loop_index, seg))

\* loop_to_bones from line 771 on, got what get_hair_rig gave at line 767.
LoopToBonesUnder(got, names, scale, parent_mode, loop, loop_index, length, S4, segments) ==
    IF got.raised
    THEN [ok |-> FALSE, bones |-> got.bones, names |-> names,
          raised |-> TRUE]
    ELSE IF got.rig # NoBone
    THEN MakeSegments(got.bones, names, scale,
                      GetHairBonePrefix(parent_mode), loop, loop_index,
                      length, S4, segments, 0, got.rig)
    ELSE [ok |-> FALSE, bones |-> got.bones, names |-> names,
          raised |-> FALSE]

\* loop_to_bones from line 759 on, length the length of the loop.  A loop
\* of length 0 raises at line 762 (division by zero).
LoopToBonesOfLength(bs, names, scale, parent_mode, loop, loop_index, bone_length, skip_length, length) ==
    IF length = 0
    THEN [ok |-> FALSE, bones |-> bs, names |-> names, raised |-> TRUE]
    ELSE LoopToBonesUnder(GetHairRig(bs, scale, parent_mode, TRUE), names,
                          scale, parent_mode, loop, loop_index, length,
                          SkipTimes4(skip_length, length),
                          Segments(length, skip_length, bone_length))

\* loop_to_bones without the test of the number of points.
LoopToBonesNoGuard(bs, names, scale, parent_mode, loop, loop_index, bone_length, skip_length) ==
    LoopToBonesOfLength(bs, names, scale, parent_mode, loop, loop_index,
                        bone_length, skip_length, LoopLength(loop))

\* loop_to_bones(chr_cache, arm, parent_mode, loop, loop_index, bone_length,
\* skip_length, new_bones): [ok, bones, names, raised]; ok is the value
\* returned, names the list new_bones afterwards.
LoopToBones(bs, names, scale, parent_mode, loop, loop_index, bone_length, skip_length) ==
    IF Len(loop) < 2
    THEN [ok |-> FALSE, bones |-> bs, names |-> names, raised |-> FALSE]
    ELSE LoopToBonesOfLength(bs, names, scale, parent_mode, loop, loop_index,
                             bone_length, skip_length, LoopLength(loop))

\* is_nearby_bone(arm, world_pos): the head of a bone is less than 0.01 m
\* (40 units) from the position.
IsNearbyBone(bs, scale, world_pos) ==
    \E i \in DOMAIN bs :
        LET d == VecSub(world_pos, ToWorld(bs[i].head, scale))
        IN  Dot(d, d) < 40 * 40

\* The while loop of custom_bone (lines 584-585): move by 0.0175 m (70
\* units) until no bone is near.
RECURSIVE FreePosition(_, _, _)
FreePosition(bs, scale, world_pos) ==
    IF IsNearbyBone(bs, scale, world_pos)
    THEN FreePosition(bs, scale, VecAdd(world_pos, <<0, 70, 0>>))
    ELSE world_pos

\* Lines 582-595 of custom_bone for the new bone, world_head its place.
PlaceCustomBone(bs, scale, bone_name, world_head, bone_length) ==
    ConnectBone(PlaceBone(bs, bone_name, ToLocal(world_head, scale),
                          ToLocal(VecAdd(world_head, <<0, 0, bone_length>>),
                                  scale)),
                bone_name, FALSE)

\* Lines 577-596 of custom_bone, bs the bones with the new bone in them.
CustomBoneAt(bs, names, scale, bone_name, hair_rig, bone_length) ==
    [ok |-> TRUE,
     bones |-> PlaceCustomBone(bs, scale, bone_name,
                   FreePosition(bs, scale,
                       VecAdd(ToWorld(GetBone(bs, hair_rig).head, scale),
                              <<0, 200, 600>>)),
                   bone_length),
     names |-> Append(names, bone_name),
     raised |-> FALSE]

\* custom_bone from line 570 on, got what get_hair_rig gave at line 568.
CustomBoneUnder(got, names, scale, bone_name, bone_length) ==
    IF got.raised
    THEN [ok |-> FALSE, bones |-> got.bones, names |-> names,
          raised |-> TRUE]
    ELSE IF got.rig # NoBone
    THEN CustomBoneAt(SelectBone(NewEditBone(got.bones, bone_name, got.rig),
                                 bone_name, TRUE),
                      names, scale, bone_name, got.rig, bone_length)
    ELSE [ok |-> FALSE, bones |-> got.bones, names |-> names,
          raised |-> FALSE]

\* custom_bone(chr_cache, arm, parent_mode, loop_index, bone_length,
\* new_bones): [ok, bones, names, raised].
CustomBone(bs, names, scale, parent_mode, loop_index, bone_length) ==
    CustomBoneUnder(GetHairRig(bs, scale, parent_mode, TRUE), names, scale,
                    ChainBoneName(GetHairBonePrefix(parent_mode), loop_index,
                                  0),
                    bone_length)

\* distance_from_line without its first branch.
DistanceFromLineNoStartBranch(co, start, end) ==
    LET line == VecSub(end, start)
        g == Gcd(Gcd(line[1], line[2]), line[3])
        dir == IF g = 0 THEN line ELSE VecDiv(line, g)
        from_start == VecSub(co, start)
        from_end == VecSub(co, end)
    IN  IF Dot(dir, from_end) >= 0
        THEN [d2n |-> Dot(from_end, from_end), d2d |-> 1,
              facn |-> 1, facd |-> 1]
        ELSE LET c == Cross(dir, from_start)
             IN  [d2n |-> Dot(c, c), d2d |-> Dot(dir, dir),
                  facn |-> Min2(g * Dot(dir, dir), Max2(0, Dot(dir, from_start))),
                  facd |-> g * Dot(dir, dir)]

\* distance_from_line(co, start, end): the square of the distance as the
\* fraction d2n / d2d and the place along the line as facn / facd.  dir is
\* the direction of the line as the shortest whole vector along it, and
\* (line x from_start) / length is taken as dir x from_start over the
\* length of dir.
DistanceFromLine(co, start, end) ==
    LET line == VecSub(end, start)
        g == Gcd(Gcd(line[1], line[2]), line[3])
        dir == IF g = 0 THEN line ELSE VecDiv(line, g)
        from_start == VecSub(co, start)
        from_end == VecSub(co, end)
    IN  IF Dot(dir, from_start) <= 0
        THEN [d2n |-> Dot(from_start, from_start), d2d |-> 1,
              facn |-> 0, facd |-> 1]
        ELSE IF Dot(dir, from_end) >= 0
        THEN [d2n |-> Dot(from_end, from_end), d2d |-> 1,
              facn |-> 1, facd |-> 1]
        ELSE LET c == Cross(dir, from_start)
             IN  [d2n |-> Dot(c, c), d2d |-> Dot(dir, dir),
                  facn |-> Min2(g * Dot(dir, dir), Max2(0, Dot(dir, from_start))),
                  facd |-> g * Dot(dir, dir)]

\* 0.001 m, the threshold of is_on_loop and the tolerance of
\* bone_chains_match.
TOLERANCE == 4

\* is_on_loop(co, loop, threshold): the walk over the segments from point
\* i, with the least distance so far as the fraction of squares mn / md;
\* min_distance starts at threshold + 1.0.
RECURSIVE IsOnLoopFrom(_, _, _, _, _, _)
IsOnLoopFrom(co, loop, i, mn, md, threshold) ==
    IF i >= Len(loop) THEN mn < threshold * threshold * md
    ELSE LET d == DistanceFromLine(co, loop[i], loop[i + 1])
             less == d.d2n * md < mn * d.d2d
             n == IF less THEN d.d2n ELSE mn
             m == IF less THEN d.d2d ELSE md
         IN  IF n < threshold * threshold * m THEN TRUE
             ELSE IsOnLoopFrom(co, loop, i + 1, n, m, threshold)

IsOnLoop(co, loop, threshold) ==
    IsOnLoopFrom(co, loop, 1, (threshold + 4000) * (threshold + 4000), 1,
                 threshold)

\* bone_chain_matches_loop(arm, bone_list, loop, threshold)
BoneChainMatchesLoop(bs, scale, bone_list, loop, threshold) ==
    \A k \in DOMAIN bone_list :
        /\ HasBone(bs, bone_list[k])
        /\ IsOnLoop(ToWorld(GetBone(bs, bone_list[k]).head, scale), loop,
                    threshold)
        /\ IsOnLoop(ToWorld(GetBone(bs, bone_list[k]).tail, scale), loop,
                    threshold)

\* delta < tolerance of bone_chains_match (lines 611 and 618-619), with
\* delta = |a.head - b.head| + |a.tail - b.tail| and tolerance divided by
\* the mean of the scale: for A and B the squares of the two lengths and S
\* the sum of the scale, (sqrt(A) + sqrt(B)) * S < 3 * tolerance.
DeltaLessThanTolerance(a, b, scale, tolerance) ==
    LET dh == VecSub(a.head, b.head)
        dt == VecSub(a.tail, b.tail)
        A == Dot(dh, dh)
        B == Dot(dt, dt)
        S == scale[1] + scale[2] + scale[3]
        R == 9 * tolerance * tolerance - S * S * (A + B)
    IN  /\ A + B < 9 * tolerance * tolerance
        /\ R > 0
        /\ 4 * S * S * S * S * A * B < R * R

\* bone_chains_match(arm, bone_list_a, bone_list_b, tolerance): every bone
\* of list a has a bone of list b within the tolerance.
BoneChainsMatch(bs, scale, bone_list_a, bone_list_b, tolerance) ==
    \A i \in DOMAIN bone_list_a :
        \E j \in DOMAIN bone_list_b :
            DeltaLessThanTolerance(GetBone(bs, bone_list_a[i]),
                                   GetBone(bs, bone_list_b[j]),
                                   scale, tolerance)

\* The inner loop of remove_duplicate_bones (lines 726-734) for the chain
\* root kids[c], from the child kids[j] down to the second child; acc is
\* [remove_list, removed_roots].
RECURSIVE DuplicateScanInner(_, _, _, _, _, _)
DuplicateScanInner(bs, scale, kids, c, j, acc) ==
    LET removed == kids[j] \in Range(acc.removed_roots)
        test_chain_bones == GetLinkedBones(bs, kids[j], <<>>)
        chain_bones == GetLinkedBones(bs, kids[c], <<>>)
    IN  IF j < 2 THEN acc
        ELSE IF ~removed /\ kids[c] = kids[j] THEN acc
        ELSE DuplicateScanInner(bs, scale, kids, c, j - 1,
                 IF /\ ~removed
                    /\ BoneChainsMatch(bs, scale, test_chain_bones,
                                       chain_bones, TOLERANCE)
                 THEN [remove_list |-> acc.remove_list \o test_chain_bones,
                       removed_roots |-> Append(acc.removed_roots, kids[j])]
                 ELSE acc)

\* The loop over the children of one rig root (lines 723-734) from child c.
RECURSIVE DuplicateScan(_, _, _, _, _)
DuplicateScan(bs, scale, kids, c, acc) ==
    IF c > Len(kids) THEN acc
    ELSE DuplicateScan(bs, scale, kids, c + 1,
             IF kids[c] \in Range(acc.removed_roots) THEN acc
             ELSE DuplicateScanInner(bs, scale, kids, c, Len(kids), acc))

\* The loop over hair_rigs (lines 719-734); a rig that is None is passed
\* over.
RECURSIVE DuplicateScanRigs(_, _, _, _)
DuplicateScanRigs(bs, scale, hair_rigs, acc) ==
    IF hair_rigs = <<>> THEN acc
    ELSE DuplicateScanRigs(bs, scale, Tail(hair_rigs),
             IF Head(hair_rigs) = NoBone THEN acc
             ELSE DuplicateScan(bs, scale, Children(bs, Head(hair_rigs)), 1,
                                acc))

\* remove_duplicate_bones(chr_cache, arm) from line 714 on, for the rig
\* roots head_rig and jaw_rig that lines 710-711 resolved (NoBone for
\* None): the bones that are left.
RemoveDuplicateBones(bs, scale, head_rig, jaw_rig) ==
    LET found == DuplicateScanRigs(bs, scale, <<head_rig, jaw_rig>>,
                     [remove_list |-> <<>>, removed_roots |-> <<>>])
    IN  RemoveBones(bs, found.remove_list)

\* bpy.ops.armature.select_linked(): a bone is selected when a selected
\* bone is linked to it through connected parents and children.
RECURSIVE ConnectedRoot(_, _)
ConnectedRoot(bs, name) ==
    LET b == GetBone(bs, name)
    IN  IF b.connect /\ b.parent # NoBone /\ HasBone(bs, b.parent)
        THEN ConnectedRoot(bs, b.parent)
        ELSE name

SelectLinked(bs) ==
    [i \in DOMAIN bs |->
        [bs[i] EXCEPT !.select =
            \E k \in DOMAIN bs :
                /\ bs[k].select
                /\ ConnectedRoot(bs, bs[k].name)
                       = ConnectedRoot(bs, bs[i].name)]]

\* Remove from the list the first loop equal to the loop (list.remove).
RECURSIVE RemoveFirst(_, _)
RemoveFirst(list, x) ==
    IF list = <<>> THEN <<>>
    ELSE IF Head(list) = x THEN Tail(list)
         ELSE <<Head(list)>> \o RemoveFirst(Tail(list), x)

\* Lines 698-702: each loop of remove_loop_list that is in loops is removed
\* from it once.
RECURSIVE RemoveLoops(_, _)
RemoveLoops(loops, remove_loop_list) ==
    IF remove_loop_list = <<>> THEN loops
    ELSE RemoveLoops(IF Head(remove_loop_list) \in Range(loops)
                     THEN RemoveFirst(loops, Head(remove_loop_list))
                     ELSE loops,
                     Tail(remove_loop_list))

\* The loop over the loops for one chain (lines 668-688) from loop k; acc
\* is [remove_bone_list, remove_loop_list, removed_roots].
RECURSIVE ExistingScanLoops(_, _, _, _, _, _, _, _)
ExistingScanLoops(bs, scale, chain_root, chain_bones, loops, k, mode, acc) ==
    IF k > Len(loops) THEN acc
    ELSE
    LET selected == GetBone(bs, chain_root).select
        remove_bones == IF mode = "SELECTED" THEN selected ELSE TRUE
        remove_loop == mode = "SELECTED" /\ ~selected
        a1 == IF remove_bones
              THEN [acc EXCEPT !.remove_bone_list = @ \o chain_bones,
                               !.removed_roots = Append(@, chain_root)]
              ELSE acc
        a2 == IF remove_loop
              THEN [a1 EXCEPT !.remove_loop_list = Append(@, loops[k])]
              ELSE a1
    IN  ExistingScanLoops(bs, scale, chain_root, chain_bones, loops, k + 1,
            mode,
            IF BoneChainMatchesLoop(bs, scale, chain_bones, loops[k],
                                    TOLERANCE)
            THEN a2 ELSE acc)

\* The loop over the children of one rig root (lines 664-688) from child c.
RECURSIVE ExistingScan(_, _, _, _, _, _, _)
ExistingScan(bs, scale, kids, c, loops, mode, acc) ==
    IF c > Len(kids) THEN acc
    ELSE ExistingScan(bs, scale, kids, c + 1, loops, mode,
             IF kids[c] \in Range(acc.removed_roots) THEN acc
             ELSE ExistingScanLoops(bs, scale, kids[c],
                      GetLinkedBones(bs, kids[c], <<>>), loops, 1, mode,
                      acc))

\* Lines 690-702: the listed bones and loops are removed; st is
\* [bones, loops, acc].
RemoveListed(st, acc) ==
    [bones |-> RemoveBones(st.bones, acc.remove_bone_list),
     loops |-> RemoveLoops(st.loops, acc.remove_loop_list),
     acc |-> acc]

\* The loop over hair_rigs (lines 661-702): after the scan of the chains
\* of each rig root the listed bones and loops are removed.
RECURSIVE ExistingScanRigs(_, _, _, _)
ExistingScanRigs(st, scale, hair_rigs, mode) ==
    IF hair_rigs = <<>> THEN st
    ELSE ExistingScanRigs(
             RemoveListed(st,
                 IF Head(hair_rigs) # NoBone
                 THEN ExistingScan(st.bones, scale,
                          Children(st.bones, Head(hair_rigs)), 1, st.loops,
                          mode, st.acc)
                 ELSE st.acc),
             scale, Tail(hair_rigs), mode)

\* remove_existing_loop_bones from line 651 on, in edit mode.
RemoveExistingInEditMode(bs, scale, loops, mode) ==
    ExistingScanRigs(
        [bones |-> bs, loops |-> loops,
         acc |-> [remove_bone_list |-> <<>>, remove_loop_list |-> <<>>,
                  removed_roots |-> <<>>]],
        scale,
        <<GetEditBone(bs, HEAD_RIG_NAME), GetEditBone(bs, JAW_RIG_NAME)>>,
        mode)

\* remove_existing_loop_bones(chr_cache, arm, loops) with
\* props.hair_rig_bind_bone_mode = mode: a record with bones, the bones
\* that are left, and loops, the generation list that is left.
RemoveExistingLoopBones(bs, scale, loops, mode) ==
    RemoveExistingInEditMode(
        IF mode = "SELECTED" THEN SelectLinked(bs) ELSE bs,
        scale, loops, mode)

\* The name with the suffix at its end.
WithSuffix(name, suffix) == [name EXCEPT ![Len(name)] = @ \o suffix]

\* The suffixes that keep the names of an armature unique.
NameSuffixes == <<".001", ".002", ".003">>

\* The name a bone gets when it is to be called name: the name, or, when a
\* bone has it, the name with the first suffix from suffix k on that makes
\* it one no bone has.
RECURSIVE UniqueNameFrom(_, _, _)
UniqueNameFrom(bs, name, k) ==
    IF ~HasBone(bs, WithSuffix(name, NameSuffixes[k])) \/ k = Len(NameSuffixes)
    THEN WithSuffix(name, NameSuffixes[k])
    ELSE UniqueNameFrom(bs, name, k + 1)

UniqueName(bs, name) ==
    IF HasBone(bs, name) THEN UniqueNameFrom(bs, name, 1) ELSE name

\* The bone old_name is called new_name; the bones that had it as parent
\* still have it.
SetName(bs, old_name, new_name) ==
    [i \in DOMAIN bs |->
        IF bs[i].name = old_name THEN [bs[i] EXCEPT !.name = new_name]
        ELSE IF bs[i].parent = old_name
             THEN [bs[i] EXCEPT !.parent = new_name]
             ELSE bs[i]]

\* child.name = new_name: the bone is renamed, to a name no other bone of
\* the armature has.
RenameBone(bs, old_name, new_name) ==
    SetName(bs, old_name, UniqueName(bs, new_name))

\* Lines 1155-1157 and 1162-1164: the children of the bone, from child k,
\* that do not carry the prefix get it in front of their name.
RECURSIVE PrefixChildren(_, _, _, _)
PrefixChildren(bs, kids, k, prefix) ==
    IF k > Len(kids) THEN bs
    ELSE PrefixChildren(IF StartsWith(kids[k], prefix) THEN bs
                        ELSE RenameBone(bs, kids[k], prefix \o kids[k]),
                        kids, k + 1, prefix)

\* One bone of the loop over arm.data.edit_bones (lines 1151-1164): a
\* bone that carries the prefix and is not the rig root is listed when it
\* has no parent, and its children get the prefix.
RepairBone(st, bone, hair_rig, prefix) ==
    [bones |-> PrefixChildren(st.bones, Children(st.bones, bone.name), 1,
                              prefix),
     reparent_list |->
         IF bone.parent = NoBone
         THEN Append(st.reparent_list, <<bone.name, hair_rig>>)
         ELSE st.reparent_list]

\* The loop over arm.data.edit_bones (lines 1150-1164) from bone i; st is
\* [bones, reparent_list], reparent_list a list of <<bone name, rig>>.
RECURSIVE RepairScan(_, _, _, _)
RepairScan(st, i, head_rig, jaw_rig) ==
    IF i > Len(st.bones) THEN st
    ELSE
    LET bone == st.bones[i]
        hair == /\ head_rig # NoBone
                /\ StartsWith(bone.name, HAIR_BONE_PREFIX)
                /\ bone.name # head_rig
        beard == /\ jaw_rig # NoBone
                 /\ StartsWith(bone.name, BEARD_BONE_PREFIX)
                 /\ bone.name # jaw_rig
    IN  RepairScan(IF hair \/ beard
                   THEN RepairBone(st, bone,
                            IF hair THEN head_rig ELSE jaw_rig,
                            IF hair THEN HAIR_BONE_PREFIX
                            ELSE BEARD_BONE_PREFIX)
                   ELSE st,
                   i + 1, head_rig, jaw_rig)

\* Lines 1180-1184: each listed bone gets its rig root as parent.
RECURSIVE Reparent(_, _)
Reparent(bs, reparent_list) ==
    IF reparent_list = <<>> THEN bs
    ELSE LET bone_name == Head(reparent_list)[1]
             hair_rig == Head(reparent_list)[2]
         IN  Reparent([i \in DOMAIN bs |->
                          IF bs[i].name = bone_name
                          THEN [bs[i] EXCEPT !.parent = hair_rig]
                          ELSE bs[i]],
                      Tail(reparent_list))

\* repair_orphaned_hair_bones(chr_cache, arm): the bones afterwards.
RepairOrphanedHairBones(bs) ==
    LET head_rig == GetEditBone(bs, HEAD_RIG_NAME)
        jaw_rig == GetEditBone(bs, JAW_RIG_NAME)
        scanned == RepairScan([bones |-> bs, reparent_list |-> <<>>], 1,
                              head_rig, jaw_rig)
    IN  Reparent(scanned.bones, scanned.reparent_list)

\* Lines 865-868 and 1471-1474: no bone is selected.
DeselectAll(bs) == [i \in DOMAIN bs |-> [bs[i] EXCEPT !.select = FALSE]]

(***************************************************************************)
(* hair.py: the operations that generate bones.                            *)
(* selected_cards_to_bones, grease_pencil_to_bones and add_custom_bone run *)
(* as a sequence of steps: the repair of orphans, the removal of the       *)
(* chains on the new loops, one step for each loop of the list, and the    *)
(* removal of duplicates, which first looks up its two rig roots and then  *)
(* enters edit mode and scans them.                                        *)
(***************************************************************************)
MaxOps == 1

Scales == {<<1, 1, 1>>, <<2, 2, 2>>}

\* The (bone_length, skip_length) arguments of the model.
LengthChoices ==
    {<<1000, 0>>, <<1000, 3600>>, <<500, 3600>>, <<1600, 0>>, <<1000, 1000>>,
     <<2000, 1000>>}

\* The loops of the model, in world space: a straight loop of 1 m, a bent
\* loop of 1 m, a loop of 0.1 m on the line of the first, one point.
LoopA == << <<0, 0, 0>>, <<0, 0, 4000>> >>

LoopB == << <<400, 0, 0>>, <<400, 0, 2000>>, <<400, 2000, 2000>> >>

LoopC == << <<0, 0, 0>>, <<0, 0, 400>> >>

LoopP == << <<800, 0, 0>> >>

LoopLists ==
    { <<LoopA>>, <<LoopA, LoopB>>, <<LoopP, LoopC>>, <<LoopA, LoopA>>,
      <<LoopC, LoopP>> }

HeadBone == Bone(<<"CC", "Base", "Head">>, NoBone, <<0, 0, 6000>>,
                 <<0, 0, 6400>>)

JawRootBone == Bone(<<"CC", "Base", "JawRoot">>, <<"CC", "Base", "Head">>,
                    <<0, 200, 6000>>, <<0, 400, 5800>>)

\* A chain of bones through the world points pts, under the parent, each
\* bone moved by dx along x in armature space.
RECURSIVE WithChain(_, _, _, _, _, _, _, _, _)
WithChain(bs, scale, prefix, parent, index, pts, seg, sel, dx) ==
    IF seg + 2 > Len(pts) THEN bs
    ELSE LET name == ChainBoneName(prefix, index, seg)
             b == [name |-> name, parent |-> parent,
                   head |-> VecAdd(ToLocal(pts[seg + 1], scale),
                                   <<dx, 0, 0>>),
                   tail |-> VecAdd(ToLocal(pts[seg + 2], scale),
                                   <<dx, 0, 0>>),
                   select |-> sel, connect |-> seg > 0]
         IN  WithChain(Append(bs, b), scale, prefix, name, index, pts,
                       seg + 1, sel, dx)

PointsA ==
    << <<0, 0, 0>>, <<0, 0, 1000>>, <<0, 0, 2000>>, <<0, 0, 3000>>,
       <<0, 0, 4000>> >>

\* A chain of the hair prefix under the head rig root.
HairChain(bs, scale, index, pts, sel, dx) ==
    WithChain(bs, scale, HAIR_BONE_PREFIX, HEAD_RIG_NAME, index, pts, 0, sel,
              dx)

\* A hair bone without parent, and a child and a grandchild for it that do
\* not carry the prefix.
OrphanBone ==
    Bone(<<"RL", "Hair", "2", "0">>, NoBone, <<200, 0, 0>>, <<200, 0, 500>>)

ExtraBone ==
    Bone(<<"Extra">>, <<"RL", "Hair", "2", "0">>, <<200, 0, 500>>,
         <<200, 0, 1000>>)

TipBone == Bone(<<"Tip">>, <<"Extra">>, <<200, 0, 1000>>, <<200, 0, 1500>>)

\* The armatures of the model: base has the head and the jaw bone, rigged
\* the head rig root as well, both the two rig roots.
ArmaturesOf(base, rigged, both, scale) ==
    { base,
      HairChain(rigged, scale, 1, PointsA, FALSE, 0),
      HairChain(rigged, scale, 1, PointsA, TRUE, 0),
      HairChain(HairChain(rigged, scale, 1, PointsA, TRUE, 0), scale, 2,
                LoopC, FALSE, 0),
      HairChain(HairChain(rigged, scale, 1, PointsA, FALSE, 0), scale, 3,
                PointsA, FALSE, 1),
      WithChain(HairChain(both, scale, 1, PointsA, FALSE, 0), scale,
                BEARD_BONE_PREFIX, JAW_RIG_NAME, 1, PointsA, 0, FALSE, 0),
      rigged \o <<OrphanBone, ExtraBone, TipBone>>,
      base \o <<OrphanBone>>,
      <<[JawRootBone EXCEPT !.parent = NoBone]>> }

WithJawRig(rigged, scale) == GetHairRig(rigged, scale, "JAW", TRUE).bones

WithRigs(base, rigged, scale) ==
    ArmaturesOf(base, rigged, WithJawRig(rigged, scale), scale)

\* The armatures of the model for a scale.
Armatures(scale) ==
    WithRigs(<<HeadBone, JawRootBone>>,
             GetHairRig(<<HeadBone, JawRootBone>>, scale, "HEAD", TRUE).bones,
             scale)

RigInit ==
    /\ arm_scale \in Scales
    /\ edit_bones \in Armatures(arm_scale)
    /\ arm_mode = "OBJECT"
    /\ bone_selection_mode \in {"SELECTED", "ALL"}
    /\ \E c \in LengthChoices : arg_bone_length = c[1] /\ arg_skip_length = c[2]
    /\ ops_done = 0
    /\ RigAtRest
    /\ IslIdle
    /\ MrgIdle
    /\ BindIdle
    /\ LineIdle
    /\ PolyIdle
    /\ LoopsIdle
    /\ RemIdle
    /\ EdgesIdle
    /\ SortIdle
    /\ AccIdle
    /\ StrokesIdle

\* The start of an operation up to the end of repair_orphaned_hair_bones,
\* which leaves the armature in object mode.
Begin(op, pm, ls) ==
    /\ rig_pc \in {"idle", "raised"}
    /\ ops_done < MaxOps
    /\ ops_done' = ops_done + 1
    /\ rig_op' = op
    /\ arg_parent_mode' = pm
    /\ gen_loops' = ls
    /\ old_loops' = ls
    /\ old_bones' = edit_bones
    /\ edit_bones' = RepairOrphanedHairBones(edit_bones)
    /\ arm_mode' = "OBJECT"
    /\ rig_pc' = "repaired"
    /\ next_index' = 0
    /\ loop_i' = 0
    /\ made_bones' = <<>>
    /\ last_call' = NoCall
    /\ used_indices' = <<>>
    /\ dup_head_rig' = NoHandle
    /\ dup_jaw_rig' = NoHandle
    /\ UNCHANGED <<arm_scale, bone_selection_mode, arg_bone_length, arg_skip_length>>
    /\ UNCHANGED otherThanRig

\* selected_cards_to_bones, lines 849-862; ls is what
\* selected_cards_to_length_loops returns.
SelectedCardsToBones ==
    \E pm \in {"HEAD", "JAW"}, ls \in LoopLists :
        Begin("selected_cards_to_bones", pm, ls)

\* grease_pencil_to_bones, lines 1397-1415, with an active layer; ls is
\* what greased_pencil_to_length_loops returns.
GreasePencilToBones ==
    \E pm \in {"HEAD", "JAW"}, ls \in LoopLists :
        Begin("grease_pencil_to_bones", pm, ls)

\* add_custom_bone, lines 1457-1467.
AddCustomBone ==
    \E pm \in {"HEAD", "JAW"} : Begin("add_custom_bone", pm, <<>>)

\* The operation works on a list of gen_loops.
FromLoops ==
    rig_op \in {"selected_cards_to_bones", "grease_pencil_to_bones"}

\* Lines 863-870 and 1416-1423: with a root bone, edit mode,
\* remove_existing_loop_bones, and no bone selected.
RemoveExisting ==
    /\ rig_pc = "repaired"
    /\ FromLoops
    /\ GetRootBoneName(edit_bones, arg_parent_mode) # NoBone
    /\ \E r \in {RemoveExistingLoopBones(edit_bones, arm_scale, gen_loops,
                                         bone_selection_mode)} :
           /\ edit_bones' = DeselectAll(r.bones)
           /\ gen_loops' = r.loops
    /\ old_bones' = edit_bones
    /\ old_loops' = gen_loops
    /\ arm_mode' = "EDIT"
    /\ next_index' = 1
    /\ loop_i' = 1
    /\ made_bones' = <<>>
    /\ rig_pc' = "cleared"
    /\ UNCHANGED <<arm_scale, bone_selection_mode, arg_bone_length, arg_skip_length,
                   arg_parent_mode, rig_op, last_call, used_indices, dup_head_rig,
                   dup_jaw_rig, ops_done>>
    /\ UNCHANGED otherThanRig

\* Lines 1470-1476: with a root bone, edit mode and no bone selected.
ClearSelection ==
    /\ rig_pc = "repaired"
    /\ rig_op = "add_custom_bone"
    /\ GetRootBoneName(edit_bones, arg_parent_mode) # NoBone
    /\ edit_bones' = DeselectAll(edit_bones)
    /\ old_bones' = edit_bones
    /\ arm_mode' = "EDIT"
    /\ next_index' = 1
    /\ made_bones' = <<>>
    /\ rig_pc' = "cleared"
    /\ UNCHANGED <<arm_scale, bone_selection_mode, arg_bone_length, arg_skip_length,
                   arg_parent_mode, rig_op, gen_loops, old_loops, loop_i, last_call,
                   used_indices, dup_head_rig, dup_jaw_rig, ops_done>>
    /\ UNCHANGED otherThanRig

\* Lines 861, 1414 and 1469: without a root bone nothing is generated.
NoRootBone ==
    /\ rig_pc = "repaired"
    /\ GetRootBoneName(edit_bones, arg_parent_mode) = NoBone
    /\ rig_pc' = "generated"
    /\ UNCHANGED <<edit_bones, arm_scale, arm_mode, bone_selection_mode,
                   arg_bone_length, arg_skip_length, arg_parent_mode, rig_op, gen_loops,
                   old_bones, old_loops, next_index, loop_i, made_bones,
                   last_call, used_indices, dup_head_rig, dup_jaw_rig, ops_done>>
    /\ UNCHANGED otherThanRig

\* Lines 871-874 and 1424-1427 for one loop of the list.
GenerateLoop ==
    /\ rig_pc \in {"cleared", "generating"}
    /\ FromLoops
    /\ loop_i <= Len(gen_loops)
    /\ \E index \in {FindUnusedHairBoneIndex(edit_bones, next_index,
                           GetHairBonePrefix(arg_parent_mode))} :
       \E r \in {LoopToBones(edit_bones, made_bones, arm_scale,
                             arg_parent_mode, gen_loops[loop_i], index,
                             arg_bone_length, arg_skip_length)} :
           /\ edit_bones' = r.bones
           /\ made_bones' = r.names
           /\ last_call' =
                  [start |-> next_index, index |-> index, ok |-> r.ok,
                   loop |-> gen_loops[loop_i],
                   made |-> SubSeq(r.names, Len(made_bones) + 1,
                                   Len(r.names)),
                   before |-> made_bones]
           /\ next_index' = IF r.ok THEN index + 1 ELSE index
           /\ used_indices' =
                  IF r.ok THEN Append(used_indices, index) ELSE used_indices
           /\ rig_pc' = IF r.raised THEN "raised" ELSE "generating"
    /\ old_bones' = edit_bones
    /\ loop_i' = loop_i + 1
    /\ UNCHANGED <<arm_scale, arm_mode, bone_selection_mode, arg_bone_length,
                   arg_skip_length, arg_parent_mode, rig_op, gen_loops, old_loops,
                   dup_head_rig, dup_jaw_rig, ops_done>>
    /\ UNCHANGED otherThanRig

\* Lines 1477-1479.
GenerateCustom ==
    /\ rig_pc = "cleared"
    /\ rig_op = "add_custom_bone"
    /\ \E index \in {FindUnusedHairBoneIndex(edit_bones, next_index,
                           GetHairBonePrefix(arg_parent_mode))} :
       \E r \in {CustomBone(edit_bones, made_bones, arm_scale,
                            arg_parent_mode, index, arg_bone_length)} :
           /\ edit_bones' = r.bones
           /\ made_bones' = r.names
           /\ last_call' =
                  [start |-> next_index, index |-> index, ok |-> r.ok,
                   loop |-> <<>>,
                   made |-> SubSeq(r.names, Len(made_bones) + 1,
                                   Len(r.names)),
                   before |-> made_bones]
           /\ next_index' = IF r.ok THEN index + 1 ELSE index
           /\ used_indices' =
                  IF r.ok THEN Append(used_indices, index) ELSE used_indices
           /\ rig_pc' = IF r.raised THEN "raised" ELSE "generated"
    /\ old_bones' = edit_bones
    /\ UNCHANGED <<arm_scale, arm_mode, bone_selection_mode, arg_bone_length,
                   arg_skip_length, arg_parent_mode, rig_op, gen_loops, old_loops,
                   loop_i, dup_head_rig, dup_jaw_rig, ops_done>>
    /\ UNCHANGED otherThanRig

\* The operation has come to the call of remove_duplicate_bones.
AtRemoveDuplicates ==
    \/ rig_pc = "generated"
    \/ /\ rig_pc \in {"cleared", "generating"}
       /\ FromLoops
       /\ loop_i > Len(gen_loops)

\* utils.edit_mode_to(arm), utils.object_mode_to(arm): the mode afterwards.
EditModeTo(mode) == "EDIT"

ObjectModeTo(mode) == "OBJECT"

\* bones.get_edit_bone(arm, name) in a mode: the edit bones are there in
\* edit mode only.
GetEditBoneIn(mode, bs, name) ==
    IF mode = "EDIT" THEN GetEditBone(bs, name) ELSE NoBone

\* get_hair_rig(chr_cache, arm, parent_mode) in a mode, as a rig variable.
LookUpRig(mode, bs, rig_parent_mode) ==
    [bone |-> GetEditBoneIn(mode, bs, HairRigName(rig_parent_mode)),
     live |-> mode = "EDIT"]

\* The call of remove_duplicate_bones as far as line 712: the two rig
\* roots are looked up in the mode the caller left the armature in
\* (edit mode at lines 876 and 1429, object mode after line 1481).
ResolveRigs ==
    /\ AtRemoveDuplicates
    /\ LET mode == IF rig_op = "add_custom_bone" THEN ObjectModeTo(arm_mode)
                   ELSE arm_mode
       IN  /\ arm_mode' = mode
           /\ dup_head_rig' = LookUpRig(mode, edit_bones, "HEAD")
           /\ dup_jaw_rig' = LookUpRig(mode, edit_bones, "JAW")
    /\ rig_pc' = "resolved"
    /\ UNCHANGED <<edit_bones, arm_scale, bone_selection_mode,
                   arg_bone_length, arg_skip_length, arg_parent_mode, rig_op,
                   gen_loops, old_bones, old_loops, next_index, loop_i,
                   made_bones, last_call, used_indices, ops_done>>
    /\ UNCHANGED otherThanRig

\* A rig variable after the mode went from the first mode to the second:
\* a change of mode ends the session the value was looked up in.
AfterModeChange(rig, from, to) ==
    [rig EXCEPT !.live = @ /\ from = to]

\* remove_duplicate_bones from line 714 to its end: edit mode, the scan of
\* the children of the two rig roots, the removal, object mode.
RemoveDuplicates ==
    /\ rig_pc = "resolved"
    /\ dup_head_rig' =
           AfterModeChange(dup_head_rig, arm_mode, EditModeTo(arm_mode))
    /\ dup_jaw_rig' =
           AfterModeChange(dup_jaw_rig, arm_mode, EditModeTo(arm_mode))
    /\ old_bones' = edit_bones
    /\ edit_bones' = RemoveDuplicateBones(edit_bones, arm_scale,
                                          dup_head_rig.bone, dup_jaw_rig.bone)
    /\ arm_mode' = ObjectModeTo(EditModeTo(arm_mode))
    /\ rig_pc' = "deduped"
    /\ UNCHANGED <<arm_scale, bone_selection_mode, arg_bone_length,
                   arg_skip_length, arg_parent_mode, rig_op, gen_loops,
                   old_loops, next_index, loop_i, made_bones, last_call,
                   used_indices, ops_done>>
    /\ UNCHANGED otherThanRig

\* The end of the operation: object mode at line 878, edit mode at lines
\* 1435 and 1486.
Return ==
    /\ rig_pc = "deduped"
    /\ arm_mode' = IF rig_op = "selected_cards_to_bones"
                   THEN ObjectModeTo(arm_mode)
                   ELSE EditModeTo(ObjectModeTo(arm_mode))
    /\ arg_parent_mode' = "HEAD"
    /\ rig_op' = "none"
    /\ gen_loops' = <<>>
    /\ rig_pc' = "idle"
    /\ old_bones' = <<>>
    /\ old_loops' = <<>>
    /\ next_index' = 0
    /\ loop_i' = 0
    /\ made_bones' = <<>>
    /\ last_call' = NoCall
    /\ used_indices' = <<>>
    /\ dup_head_rig' = NoHandle
    /\ dup_jaw_rig' = NoHandle
    /\ UNCHANGED <<edit_bones, arm_scale, bone_selection_mode,
                   arg_bone_length, arg_skip_length, ops_done>>
    /\ UNCHANGED otherThanRig

RigNext ==
    \/ SelectedCardsToBones
    \/ GreasePencilToBones
    \/ AddCustomBone
    \/ RemoveExisting
    \/ ClearSelection
    \/ NoRootBone
    \/ GenerateLoop
    \/ GenerateCustom
    \/ ResolveRigs
    \/ RemoveDuplicates
    \/ Return

SpecRig == RigInit /\ [][RigNext]_vars

(***************************************************************************)
(* Claims about the operations that generate bones.                        *)
(***************************************************************************)

\* C3: in a top-level hair operation no bone handle is kept across a change
\* of mode: when remove_duplicate_bones has scanned the children of its two
\* rig variables, both were looked up in the edit session of the scan.
C3_HandlesResolvedInSession ==
    rig_pc = "deduped" => dup_head_rig.live /\ dup_jaw_rig.live

\* The chain roots of the rig: the children of the head rig root, then
\* those of the jaw rig root.
ChainRoots(bs) == Children(bs, HEAD_RIG_NAME) \o Children(bs, JAW_RIG_NAME)

\* The two chains have all their bones matching within the tolerance, each
\* bone of the one a bone of the other.
ChainsMatch(bs, scale, root_a, root_b) ==
    /\ BoneChainsMatch(bs, scale, GetLinkedBones(bs, root_a, <<>>),
                       GetLinkedBones(bs, root_b, <<>>), TOLERANCE)
    /\ BoneChainsMatch(bs, scale, GetLinkedBones(bs, root_b, <<>>),
                       GetLinkedBones(bs, root_a, <<>>), TOLERANCE)

\* No two of the chains match.
NoTwoMatch(bs, scale, roots) ==
    \A i \in DOMAIN roots : \A j \in DOMAIN roots :
        i < j => ~ChainsMatch(bs, scale, roots[i], roots[j])

\* Of the chains before, those are left that match no chain before them.
FirstOfEachKept(before, after, scale, roots) ==
    \A j \in DOMAIN roots :
        HasBone(after, roots[j])
            <=> \A i \in 1 .. (j - 1) :
                    ~ChainsMatch(before, scale, roots[i], roots[j])

\* C6: after remove_duplicate_bones, called in edit mode, no two chains
\* left in the rig match within the tolerance, be they under the same rig
\* root or one under each, and of the chains that matched the first in
\* child order is the one kept.
C6_NoDuplicateChainsLeft ==
    rig_pc = "deduped" /\ dup_head_rig.live /\ dup_jaw_rig.live
        => /\ NoTwoMatch(edit_bones, arm_scale, ChainRoots(edit_bones))
           /\ FirstOfEachKept(old_bones, edit_bones, arm_scale,
                              ChainRoots(old_bones))

\* A bone of bs has a name that begins with <prefix>_<index>_.
IndexInUse(bs, prefix, index) ==
    \E i \in DOMAIN bs :
        /\ Len(bs[i].name) > Len(prefix) + 1
        /\ SubSeq(bs[i].name, 1, Len(prefix) + 1) = prefix \o <<Str(index)>>

\* The index is the smallest one from start on that no bone of bs uses.
SmallestUnusedFrom(bs, prefix, start, index) ==
    /\ index >= start
    /\ ~IndexInUse(bs, prefix, index)
    /\ \A k \in start .. (index - 1) : IndexInUse(bs, prefix, k)

\* The names made are new to bs, differ from each other and begin with
\* <prefix>_<index>_.
MadeUnderIndex(bs, prefix, index, made) ==
    /\ \A k \in DOMAIN made :
           /\ made[k] \notin BoneNames(bs)
           /\ Len(made[k]) > Len(prefix) + 1
           /\ SubSeq(made[k], 1, Len(prefix) + 1) = prefix \o <<Str(index)>>
    /\ \A k \in DOMAIN made : \A m \in DOMAIN made :
           made[k] = made[m] => k = m

\* The last call of find_unused_hair_bone_index and of loop_to_bones or
\* custom_bone has been made and the bones before it are in old_bones.
AfterGeneration ==
    /\ rig_pc \in {"generating", "generated", "raised"}
    /\ last_call.index > 0

\* C7: no generated bone name collides with a name that was there.  The
\* index found is the smallest one at or above the start index that no
\* bone name of the armature begins with, the bones of the chain are
\* created under it with names the armature did not have, the chains of
\* one invocation have different indices, and no two bones of the
\* armature ever have the same name.
C7_NoNameCollision ==
    /\ \A i \in DOMAIN edit_bones : \A j \in DOMAIN edit_bones :
           edit_bones[i].name = edit_bones[j].name => i = j
    /\ \A i \in DOMAIN used_indices : \A j \in DOMAIN used_indices :
           used_indices[i] = used_indices[j] => i = j
    /\ AfterGeneration =>
           /\ SmallestUnusedFrom(old_bones, GetHairBonePrefix(arg_parent_mode),
                                 last_call.start, last_call.index)
           /\ MadeUnderIndex(old_bones, GetHairBonePrefix(arg_parent_mode),
                             last_call.index, last_call.made)

\* The second chain of an invocation has been created, under an index
\* above the start index because the start index was in use.
C7_Witness ==
    /\ AfterGeneration
    /\ last_call.ok
    /\ last_call.made # <<>>
    /\ last_call.index > last_call.start
    /\ Len(used_indices) = 2

\* What the claim says of one chain and one loop it lies on: sel holds the
\* bones as remove_existing_loop_bones sees them, after the bones and the
\* generation list it leaves.
ChainAndLoopTreated(sel, after, loops_after, chain_root, chain, loop, mode) ==
    IF mode # "SELECTED" \/ GetBone(sel, chain_root).select
    THEN /\ \A k \in DOMAIN chain : ~HasBone(after, chain[k])
         /\ loop \in Range(loops_after)
    ELSE /\ \A k \in DOMAIN chain : HasBone(after, chain[k])
         /\ loop \notin Range(loops_after)

\* What the claim says of one chain.
ChainTreated(sel, scale, after, loops, loops_after, chain_root, chain, mode) ==
    /\ \A k \in DOMAIN loops :
           BoneChainMatchesLoop(sel, scale, chain, loops[k], TOLERANCE)
               => ChainAndLoopTreated(sel, after, loops_after, chain_root,
                                      chain, loops[k], mode)
    /\ (\A k \in DOMAIN loops :
            ~BoneChainMatchesLoop(sel, scale, chain, loops[k], TOLERANCE))
           => \A k \in DOMAIN chain : HasBone(after, chain[k])

\* What the claim says of the chains with the roots and of the loops.
ExistingTreated(sel, scale, after, loops, loops_after, roots, mode) ==
    /\ \A c \in DOMAIN roots :
           ChainTreated(sel, scale, after, loops, loops_after, roots[c],
                        GetLinkedBones(sel, roots[c], <<>>), mode)
    /\ \A k \in DOMAIN loops :
           (\A c \in DOMAIN roots :
                ~BoneChainMatchesLoop(sel, scale,
                     GetLinkedBones(sel, roots[c], <<>>), loops[k],
                     TOLERANCE))
               => loops[k] \in Range(loops_after)

\* The bones as remove_existing_loop_bones sees them (lines 645-649).
SeenBy(bs, mode) == IF mode = "SELECTED" THEN SelectLinked(bs) ELSE bs

\* C8: remove_existing_loop_bones removes every bone of a chain that lies
\* on one of the loops and leaves the loop in the list, when the mode is
\* not SELECTED or the root of the chain is selected; it keeps the chain
\* and removes the loop from the list when the mode is SELECTED and the
\* root is not selected; a chain on no loop keeps its bones and a loop with
\* no chain on it stays in the list.
C8_ExistingChainsTreated ==
    rig_pc = "cleared" /\ FromLoops
        => ExistingTreated(SeenBy(old_bones, bone_selection_mode), arm_scale,
                           edit_bones, old_loops, gen_loops,
                           ChainRoots(old_bones), bone_selection_mode)

\* The bone is a bone of a chain with the prefix: its name carries the
\* prefix and it is not a rig root.
ChainBoneOf(name, prefix) ==
    StartsWith(name, prefix) /\ ~IsHairRigBone(name)

\* What the claim says of the bones with the prefix, whose rig root is
\* hair_rig: before and after are the bones before and after the repair,
\* which keeps their order.
PrefixRepaired(before, after, prefix, hair_rig) ==
    /\ \A i \in DOMAIN after :
           ChainBoneOf(after[i].name, prefix) => after[i].parent # NoBone
    /\ \A i \in DOMAIN before :
           ChainBoneOf(before[i].name, prefix) /\ before[i].parent = NoBone
               => after[i].parent = hair_rig
    /\ \A i \in DOMAIN after :
           ChainBoneOf(after[i].name, prefix)
               => \A n \in Range(GetLinkedBones(after, after[i].name, <<>>)) :
                      StartsWith(n, prefix)

\* C9: after repair_orphaned_hair_bones every bone with the hair or the
\* beard prefix, the rig roots apart, has a parent; one that had none is
\* a child of the head rig root (hair) or of the jaw rig root (beard); and
\* every bone below a hair or beard chain bone carries the same prefix.
C9_OrphansRepaired ==
    rig_pc = "repaired"
        => /\ PrefixRepaired(old_bones, edit_bones, HAIR_BONE_PREFIX,
                             HEAD_RIG_NAME)
           /\ PrefixRepaired(old_bones, edit_bones, BEARD_BONE_PREFIX,
                             JAW_RIG_NAME)

\* r is x / d rounded to the nearest whole number, a tie to the even one.
IsRounded(r, x, d) ==
    /\ 2 * Abs(r * d - x) <= d
    /\ 2 * Abs(r * d - x) = d => r % 2 = 0

\* n is max(1, round((L - s') / b)) with s' = min(s, 3 L / 4), for the
\* loop length L, the skip length s and the bone length b.
IsBoneCount(n, L, s, b) ==
    \E r \in 0 .. (L \div b + 1) :
        /\ IsRounded(r, 4 * L - Min2(4 * s, 3 * L), 4 * b)
        /\ n = Max2(1, r)

\* The number of bones of bs with a name that begins with
\* <prefix>_<index>_.
BonesOfIndex(bs, prefix, index) ==
    Cardinality({i \in DOMAIN bs :
                    /\ Len(bs[i].name) > Len(prefix) + 1
                    /\ SubSeq(bs[i].name, 1, Len(prefix) + 1)
                           = prefix \o <<Str(index)>>})

\* loop_to_bones has just returned True for the loop last_call.loop.
AfterLoopToBones ==
    rig_pc = "generating" /\ FromLoops /\ last_call.ok

\* C10: loop_to_bones creates max(1, round((L - s') / b)) bones for a loop
\* of length L > 0, with s' = min(s, 3 L / 4): at least one, and with the
\* skip length held to three quarters of the length of the loop.  L = 1,
\* s = 0, b = 0.25 gives 4 bones and L = 1, s = 0.9, b = 0.25 gives 1.
C10_BoneCount ==
    AfterLoopToBones
        => /\ LoopLength(last_call.loop) > 0
           /\ Len(last_call.made) >= 1
           /\ IsBoneCount(Len(last_call.made), LoopLength(last_call.loop),
                          arg_skip_length, arg_bone_length)
           /\ BonesOfIndex(edit_bones, GetHairBonePrefix(arg_parent_mode),
                           last_call.index) = Len(last_call.made)
           /\ Len(edit_bones) - Len(old_bones)
                  = Len(last_call.made)
                    + (IF HasBone(old_bones, HairRigName(arg_parent_mode))
                       THEN 0 ELSE 1)
           /\ ( /\ LoopLength(last_call.loop) = 4000
                /\ arg_skip_length = 0
                /\ arg_bone_length = 1000 ) => Len(last_call.made) = 4
           /\ ( /\ LoopLength(last_call.loop) = 4000
                /\ arg_skip_length = 3600
                /\ arg_bone_length = 1000 ) => Len(last_call.made) = 1

\* A loop of 1 m with skip length 0.9 m and bone length 0.25 m has got its
\* one bone.
C10_Witness ==
    /\ AfterLoopToBones
    /\ LoopLength(last_call.loop) = 4000
    /\ arg_skip_length = 3600
    /\ arg_bone_length = 1000
    /\ Len(last_call.made) = 1

\* loop_to_bones has been called for a loop of fewer than 2 points.
AfterShortLoop ==
    /\ rig_pc \in {"generating", "raised"}
    /\ FromLoops
    /\ last_call.index > 0
    /\ Len(last_call.loop) < 2

\* C11: loop_to_bones for a loop of fewer than 2 points returns False and
\* does not raise; no bone and no rig root is created, new_bones is as it
\* was, and the caller does not add one to the loop index.
C11_ShortLoopChangesNothing ==
    AfterShortLoop
        => /\ rig_pc # "raised"
           /\ ~last_call.ok
           /\ edit_bones = old_bones
           /\ made_bones = last_call.before
           /\ last_call.made = <<>>
           /\ next_index = last_call.index
           /\ last_call.index \notin Range(used_indices)

\* A loop of one point has come after a loop that got its chain.
C11_Witness ==
    /\ AfterShortLoop
    /\ last_call.before # <<>>

\* The operation has passed over the generation: there was no root bone
\* for the parent mode.
GenerationSkipped ==
    rig_pc = "generated" /\ last_call = NoCall

\* C13: a bone that is missing is not fatal to selected_cards_to_bones,
\* grease_pencil_to_bones and add_custom_bone: on every armature and for
\* either parent mode they do not raise, and when they pass over the
\* generation no bone and no rig root has been created.
C13_MissingBoneNotFatal ==
    /\ rig_pc # "raised"
    /\ GenerationSkipped => Len(edit_bones) = Len(old_bones)


(***************************************************************************)
(* hair.py: binding the hair cards to the bone chains (BIND_TO_BONES).     *)
(* The lengths of this part are whole numbers of one unit of length, and   *)
(* the cards and chains are placed so that every distance taken is whole.  *)
(* A weight, a factor of a weight, the variance and a value of the random  *)
(* generator are exact fractions <<numerator, denominator>> in lowest      *)
(* terms.                                                                  *)
(***************************************************************************)
Frac(n, d) == <<n \div Gcd(n, d), d \div Gcd(n, d)>>

FracMul(a, b) == Frac(a[1] * b[1], a[2] * b[2])

FracAdd(a, b) == Frac(a[1] * b[2] + b[1] * a[2], a[2] * b[2])

FracSub(a, b) == Frac(a[1] * b[2] - b[1] * a[2], a[2] * b[2])

FracLess(a, b) == a[1] * b[2] < b[1] * a[2]

\* min(a, b) and max(a, b) of Python: the first argument on a tie.
FracMin(a, b) == IF FracLess(b, a) THEN b ELSE a

FracMax(a, b) == IF FracLess(a, b) THEN b ELSE a

\* math.pow(a, k) for a whole k >= 0; math.pow(0.0, 0.0) is 1.0.
RECURSIVE FracPow(_, _)
FracPow(a, k) == IF k = 0 THEN <<1, 1>> ELSE FracMul(a, FracPow(a, k - 1))

\* The generator of the random module, reduced to sixteen states: seed(a)
\* sets the state from a alone, a draw steps the state and gives a value
\* in [0, 1) that is a function of the new state.
RandomNoSeed(state, seed) == state

\* random.seed(seed)
RandomSeed(state, seed) == seed % 16

RandomStep(state) == (5 * state + 3) % 16

\* The state after k draws.
RECURSIVE RandomAfter(_, _)
RandomAfter(state, k) ==
    IF k = 0 THEN state ELSE RandomStep(RandomAfter(state, k - 1))

\* random.random() of the draw that leaves the generator in state.
RandomValue(state) == Frac(state \div 4, 4)

\* random.uniform(a, b) is a + (b - a) * random(), here of the draw from
\* state.
RandomUniform(state, a, b) ==
    FracAdd(a, FracMul(FracSub(b, a), RandomValue(RandomStep(state))))

\* bone_weight_variance_mods of weight_card_to_bones (lines 1014-1016),
\* the generator in state before the first draw.
BoneWeightVarianceMods(state, max_bones, max_weight, variance) ==
    [b \in 1 .. max_bones |->
        RandomUniform(RandomAfter(state, b - 1),
                      FracMul(max_weight, FracSub(<<1, 1>>, variance)),
                      max_weight)]

\* get_distance_to_bone_def(bone_def, co)
GetDistanceToBoneDef(bone_def, co) ==
    DistanceFromLine(co, bone_def.head, bone_def.tail)

\* The test of the loop of get_closest_bone_def for bone k of the chain,
\* r its distance and place; the distances are compared by their squares,
\* and least holds the square of least_distance as d2n / d2d.
CloserOf(least, k, r) ==
    IF r.d2n * least.d2d < least.d2n * r.d2d
    THEN [d2n |-> r.d2n, d2d |-> r.d2d, bone |-> k,
          fac |-> Frac(r.facn, r.facd)]
    ELSE least

RECURSIVE ClosestFrom(_, _, _, _)
ClosestFrom(bone_chain, co, k, least) ==
    IF k > Len(bone_chain) THEN least
    ELSE ClosestFrom(bone_chain, co, k + 1,
                     CloserOf(least, k,
                              GetDistanceToBoneDef(bone_chain[k], co)))

\* The least distance itself, which is whole for the cards and chains of
\* the model.
WholeDistance(least) ==
    [distance |-> SqrtIn(least.d2n \div least.d2d, 0, least.d2n \div least.d2d),
     bone |-> least.bone, fac |-> least.fac]

\* get_closest_bone_def(bone_chain, co, max_radius): the place of the bone
\* in the chain (1 is bone_chain[0]), its distance and the place along it.
GetClosestBoneDef(bone_chain, co, max_radius) ==
    WholeDistance(ClosestFrom(bone_chain, co, 1,
                              [d2n |-> 4 * max_radius * max_radius, d2d |-> 1,
                               bone |-> 1, fac |-> <<0, 1>>]))

\* co_length of get_weighted_bone_distance after point i of the loop:
\* last_co stays the first point of the loop.
RECURSIVE CoLength(_, _)
CoLength(median_loop, i) ==
    IF i = 0 THEN 0
    ELSE CoLength(median_loop, i - 1)
             + VecLength(VecSub(median_loop[i], median_loop[1]))

\* weighted_distance of get_weighted_bone_distance after point i.
RECURSIVE WeightedDistanceTo(_, _, _, _, _)
WeightedDistanceTo(bone_chain, max_radius, median_loop, median_length, i) ==
    IF i = 0 THEN <<0, 1>>
    ELSE FracAdd(WeightedDistanceTo(bone_chain, max_radius, median_loop, median_length, i - 1),
                 Frac(GetClosestBoneDef(bone_chain, median_loop[i], max_radius).distance
                          * CoLength(median_loop, i) * 2,
                      median_length))

\* get_weighted_bone_distance(bone_chain, max_radius, median_loop,
\* median_length), for a loop with a point and of length above 0.
GetWeightedBoneDistance(bone_chain, max_radius, median_loop, median_length) ==
    FracMul(WeightedDistanceTo(bone_chain, max_radius, median_loop, median_length, Len(median_loop)),
            <<1, Len(median_loop)>>)

\* The distances of sorted_bones in assign_bones, by the place of the chain
\* in bone_chains.
ChainDistances(chains, max_radius, median) ==
    [c \in DOMAIN chains |->
        GetWeightedBoneDistance(chains[c], max_radius, median,
                                LoopLength(median))]

\* list.sort by the distance, ascending: chain a comes before chain b when
\* it is nearer, and chains as near as each other keep their order.
SortsBefore(dist, a, b) ==
    FracLess(dist[a], dist[b]) \/ (dist[a] = dist[b] /\ a < b)

\* sorted_bones left in the order of bone_chains.
SortedBonesUnsorted(dist) == [r \in DOMAIN dist |-> r]

\* sorted_bones after the sort (line 1071), as the places of the chains in
\* bone_chains.
SortedBones(dist) ==
    [r \in DOMAIN dist |->
        CHOOSE c \in DOMAIN dist :
            Cardinality({x \in DOMAIN dist : SortsBefore(dist, x, c)}) = r - 1]

\* No floor under the weight in either mode.
MinWeightZero(cc4) == <<0, 1>>

\* min_weight of weight_card_to_bones (line 1012).
MinWeight(cc4) == IF cc4 THEN <<1, 100>> ELSE <<0, 1>>

\* card_length_fac for point i of the median, counted from 1.
CardLengthFac(median, i, median_length, curve) ==
    FracPow(Frac(LoopLengthTo(median, i - 1), median_length), curve)

\* bone_fac as lines 1037-1040 leave it.
BoneFac(cc4, closest) ==
    IF cc4 THEN <<1, 1>>
    ELSE IF closest.bone # 1 THEN <<1, 1>>
    ELSE closest.fac

\* weight_distance (line 1034).
WeightDistance(max_radius, bone_distance) ==
    Min2(max_radius, Max2(0, max_radius - bone_distance))

\* weight as lines 1035-1043 leave it.
BoneWeight(variance_mod, closest, max_radius, max_bones, cc4, card_length_fac) ==
    FracMax(MinWeight(cc4),
            FracMul(FracMul(FracMul(variance_mod,
                                    Frac(WeightDistance(max_radius, closest.distance),
                                         max_radius)),
                            <<1, max_bones>>),
                    FracMax(<<0, 1>>, FracMin(BoneFac(cc4, closest), card_length_fac))))

\* The two writes for one vertex the other way round: 1 - max_weight in
\* the group of the first bone, then the weight.
VertexWritesPinFirst(vert_index, bone_chain, chain, point, closest, weight, args) ==
    (IF args.cc4
     THEN <<[vert |-> vert_index, bone |-> bone_chain[1].name,
             weight |-> FracSub(<<1, 1>>, args.max_weight), pin |-> TRUE,
             chain |-> chain, point |-> point,
             distance |-> closest.distance]>>
     ELSE <<>>)
    \o <<[vert |-> vert_index, bone |-> bone_chain[closest.bone].name,
          weight |-> weight, pin |-> FALSE, chain |-> chain, point |-> point,
          distance |-> closest.distance]>>

\* The writes of lines 1045-1054 for one vertex: the weight in the group of
\* the closest bone, then for the CC4 target 1 - max_weight in the group
\* of the first bone of the chain.
VertexWrites(vert_index, bone_chain, chain, point, closest, weight, args) ==
    <<[vert |-> vert_index, bone |-> bone_chain[closest.bone].name,
       weight |-> weight, pin |-> FALSE, chain |-> chain, point |-> point,
       distance |-> closest.distance]>>
    \o IF args.cc4
       THEN <<[vert |-> vert_index, bone |-> bone_chain[1].name,
               weight |-> FracSub(<<1, 1>>, args.max_weight), pin |-> TRUE,
               chain |-> chain, point |-> point,
               distance |-> closest.distance]>>
       ELSE <<>>

\* The loop over card["loops"][i] from place k of the list.
RECURSIVE LoopWrites(_, _, _, _, _, _, _, _)
LoopWrites(vert_loop, k, bone_chain, chain, point, closest, weight, args) ==
    IF k > Len(vert_loop) THEN <<>>
    ELSE VertexWrites(vert_loop[k], bone_chain, chain, point, closest, weight, args)
         \o LoopWrites(vert_loop, k + 1, bone_chain, chain, point, closest, weight, args)

\* One pass of the loop over b (lines 1030-1054) for point i of the
\* median, closest the result of get_closest_bone_def.
ChainWrites(card, i, chains, chain, closest, variance_mod, max_bones, median_length, args) ==
    LoopWrites(card.loops[i], 1, chains[chain], chain, i, closest,
               BoneWeight(variance_mod, closest, args.max_radius, max_bones, args.cc4,
                          CardLengthFac(card.median, i, median_length, args.curve)),
               args)

\* The loop over b from b on, for point i of the median.
RECURSIVE PointWrites(_, _, _, _, _, _, _, _, _)
PointWrites(card, i, b, chains, sorted_bones, mods, max_bones, median_length, args) ==
    IF b > max_bones THEN <<>>
    ELSE ChainWrites(card, i, chains, sorted_bones[b],
                     GetClosestBoneDef(chains[sorted_bones[b]], card.median[i], args.max_radius),
                     mods[b], max_bones, median_length, args)
         \o PointWrites(card, i, b + 1, chains, sorted_bones, mods, max_bones, median_length, args)

\* The loop over the median from point i on (lines 1027-1054).
RECURSIVE MedianWrites(_, _, _, _, _, _, _, _)
MedianWrites(card, i, chains, sorted_bones, mods, max_bones, median_length, args) ==
    IF i > Len(card.median) THEN <<>>
    ELSE PointWrites(card, i, 1, chains, sorted_bones, mods, max_bones, median_length, args)
         \o MedianWrites(card, i + 1, chains, sorted_bones, mods, max_bones, median_length, args)

\* max_bones as lines 1009-1010 leave it.
BonesUsed(chains, args) == Min2(args.max_bones, Len(chains))

\* weight_card_to_bones(obj, bm, card, sorted_bones, ...): its writes in
\* order, the generator in state at the call.  The variance mods are drawn
\* once, before the loops.
WeightCardToBones(card, chains, sorted_bones, state, args) ==
    CHOOSE writes \in
        {MedianWrites(card, 1, chains, sorted_bones, mods, BonesUsed(chains, args), LoopLength(card.median), args) :
            mods \in {BoneWeightVarianceMods(state, BonesUsed(chains, args), args.max_weight, args.variance)}} : TRUE

\* The deform layer after the writes from place k on.
RECURSIVE WithWrites(_, _, _)
WithWrites(layer, writes, k) ==
    IF k > Len(writes) THEN layer
    ELSE WithWrites([key \in DOMAIN layer \cup {<<writes[k].vert, writes[k].bone>>} |->
                        IF key = <<writes[k].vert, writes[k].bone>>
                        THEN writes[k].weight ELSE layer[key]],
                    writes, k + 1)

\* get_weighted_bone_distance takes median_loop[0] and divides by
\* median_length (lines 986 and 989), weight_card_to_bones divides by
\* median_length for every point of the median (line 1029).
CardRaises(card, chains) ==
    \/ chains # <<>> /\ card.median = <<>>
    \/ card.median # <<>> /\ LoopLength(card.median) = 0

\* hair_bones of bind_cards_to_bones (lines 1496-1499).
HairBones(chains) ==
    UNION {{chains[c][k].name : k \in DOMAIN chains[c]} : c \in DOMAIN chains}

\* remove_hair_bone_weights(arm, obj, hair_bone_list=hair_bones): the
\* groups of the list are removed, and with an empty list the groups of
\* all hair bones.
RemoveHairBoneWeights(layer, hair_bone_list) ==
    [key \in {x \in DOMAIN layer :
                 IF hair_bone_list = {} THEN ~IsHairBone(x[2])
                 ELSE x[2] \notin hair_bone_list} |-> layer[key]]

(***************************************************************************)
(* The cards, the chains and the properties the operator is run with.      *)
(***************************************************************************)
BoneDef(name, head, tail) == [name |-> name, head |-> head, tail |-> tail]

\* Two chains of two bones along z, 4 apart, the last bone of each
\* stretched as add_bone_chain leaves it, and a chain of one bone far off.
ChainA ==
    <<BoneDef(ChainBoneName(HAIR_BONE_PREFIX, 1, 0), <<0, 0, 0>>, <<0, 0, 2>>),
      BoneDef(ChainBoneName(HAIR_BONE_PREFIX, 1, 1), <<0, 0, 2>>, <<0, 0, 10>>)>>

ChainB ==
    <<BoneDef(ChainBoneName(HAIR_BONE_PREFIX, 2, 0), <<4, 0, 0>>, <<4, 0, 2>>),
      BoneDef(ChainBoneName(HAIR_BONE_PREFIX, 2, 1), <<4, 0, 2>>, <<4, 0, 10>>)>>

ChainC ==
    <<BoneDef(ChainBoneName(BEARD_BONE_PREFIX, 3, 0), <<20, 0, 0>>, <<20, 0, 8>>)>>

ChainLists == {<<>>, <<ChainA>>, <<ChainA, ChainB>>, <<ChainC, ChainB, ChainA>>}

Card(median, loops) == [median |-> median, loops |-> loops]

\* A card next to chain A, a card next to chain B, a card between the
\* two, a card far from both, and a card of one lateral loop.
CardNearA ==
    Card(<< <<1, 0, 0>>, <<1, 0, 1>>, <<1, 0, 4>> >>, << <<1, 2>>, <<3>>, <<4, 5>> >>)

CardNearB == Card(<< <<3, 0, 1>>, <<3, 0, 3>> >>, << <<6>>, <<7, 8>> >>)

CardBetween == Card(<< <<2, 0, 0>>, <<2, 0, 2>> >>, << <<9>>, <<10>> >>)

CardFar == Card(<< <<10, 0, 0>>, <<10, 0, 3>> >>, << <<11>>, <<12>> >>)

CardOfOneLoop == Card(<< <<1, 0, 0>> >>, << <<13, 14>> >>)

CardLists ==
    {<<>>, <<CardNearA>>, <<CardNearA, CardNearB>>, <<CardBetween, CardFar>>,
     <<CardNearB, CardOfOneLoop>>, <<CardOfOneLoop, CardNearA>>}

BindArgs ==
    [max_radius : {2, 4}, max_bones : 1 .. 3,
     max_weight : {<<1, 2>>, <<1, 1>>}, curve : 0 .. 2,
     variance : {<<0, 1>>, <<1, 2>>, <<1, 1>>}, cc4 : BOOLEAN,
     seed : {1, 6}]

(***************************************************************************)
(* SpecBind: the operator BIND_TO_BONES, run twice on the same cards and   *)
(* chains with the same properties.                                        *)
(***************************************************************************)
BindInit ==
    /\ bind_cards \in CardLists
    /\ bone_chains \in ChainLists
    /\ bind_args \in BindArgs
    /\ random_state \in {0, 9}
    /\ weights = <<>>
    /\ card_writes = <<>>
    /\ first_weights = <<>>
    /\ bind_card = 0
    /\ bind_run = "first"
    /\ bind_pc = "ready"
    /\ IslIdle
    /\ MrgIdle
    /\ RigIdle
    /\ LineIdle
    /\ PolyIdle
    /\ LoopsIdle
    /\ RemIdle
    /\ EdgesIdle
    /\ SortIdle
    /\ AccIdle
    /\ StrokesIdle

\* execute, BIND_TO_BONES (lines 1669-1679), and bind_cards_to_bones up to
\* assign_bones (lines 1489-1504): the generator is seeded and the groups
\* of the hair bones are removed.
BindToBones ==
    /\ bind_pc = "ready"
    /\ random_state' = RandomSeed(random_state, bind_args.seed)
    /\ weights' = RemoveHairBoneWeights(weights, HairBones(bone_chains))
    /\ card_writes' = <<>>
    /\ bind_card' = 1
    /\ bind_pc' = "assigning"
    /\ UNCHANGED <<bind_cards, bone_chains, bind_args, first_weights, bind_run>>
    /\ UNCHANGED otherThanBind

\* The writes of assign_bones for one card (lines 1062-1072): the chains
\* are sorted by their distance to the median and the card is weighted.
AssignBonesWrites(card, chains, state, args) ==
    CHOOSE writes \in
        {WeightCardToBones(card, chains, sorted_bones, state, args) :
            sorted_bones \in {SortedBones(ChainDistances(chains, args.max_radius, card.median))}} : TRUE

\* One pass of the loop of assign_bones.
AssignBonesCard ==
    /\ bind_pc = "assigning"
    /\ bind_card <= Len(bind_cards)
    /\ ~CardRaises(bind_cards[bind_card], bone_chains)
    /\ \E writes \in {AssignBonesWrites(bind_cards[bind_card], bone_chains, random_state, bind_args)} :
           /\ card_writes' = writes
           /\ weights' = WithWrites(weights, writes, 1)
    /\ random_state' = RandomAfter(random_state, BonesUsed(bone_chains, bind_args))
    /\ bind_card' = bind_card + 1
    /\ UNCHANGED <<bind_cards, bone_chains, bind_args, first_weights, bind_run, bind_pc>>
    /\ UNCHANGED otherThanBind

\* The pass of the loop raises IndexError or ZeroDivisionError.
AssignBonesRaises ==
    /\ bind_pc = "assigning"
    /\ bind_card <= Len(bind_cards)
    /\ CardRaises(bind_cards[bind_card], bone_chains)
    /\ bind_pc' = "raised"
    /\ UNCHANGED <<bind_cards, bone_chains, bind_args, random_state, weights,
                   card_writes, first_weights, bind_card, bind_run>>
    /\ UNCHANGED otherThanBind

\* The end of bind_cards_to_bones (lines 1505-1508).
BindReturn ==
    /\ bind_pc = "assigning"
    /\ bind_card > Len(bind_cards)
    /\ bind_pc' = "done"
    /\ first_weights' = IF bind_run = "first" THEN weights ELSE first_weights
    /\ UNCHANGED <<bind_cards, bone_chains, bind_args, random_state, weights,
                   card_writes, bind_card, bind_run>>
    /\ UNCHANGED otherThanBind

\* The operator is run again.
BindAgain ==
    /\ bind_pc = "done"
    /\ bind_run = "first"
    /\ bind_run' = "second"
    /\ bind_pc' = "ready"
    /\ UNCHANGED <<bind_cards, bone_chains, bind_args, random_state, weights,
                   card_writes, first_weights, bind_card>>
    /\ UNCHANGED otherThanBind

BindNext ==
    \/ BindToBones
    \/ AssignBonesCard
    \/ AssignBonesRaises
    \/ BindReturn
    \/ BindAgain

SpecBind == BindInit /\ [][BindNext]_vars

(***************************************************************************)
(* Claims about binding the cards to the bones.                            *)
(***************************************************************************)
\* The second run of the operator has returned.
SecondRunDone == bind_run = "second" /\ bind_pc = "done"

CardWeighted == bind_pc = "assigning" /\ bind_card > 1

\* The floor of the weights: 0.01 for the CC4 target, 0 otherwise.
FloorOf(args) == IF args.cc4 THEN <<1, 100>> ELSE <<0, 1>>

\* The larger of the floor and max_weight / n.
CeilingOf(args, n) ==
    IF FracLess(FloorOf(args), FracMul(args.max_weight, <<1, n>>))
    THEN FracMul(args.max_weight, <<1, n>>)
    ELSE FloorOf(args)

FracWithin(w, lo, hi) == ~FracLess(w, lo) /\ ~FracLess(hi, w)

\* The point is farther than max_radius from every bone of the chain.
FartherThanRadius(co, bone_chain, max_radius) ==
    \A k \in DOMAIN bone_chain :
        \E r \in {DistanceFromLine(co, bone_chain[k].head, bone_chain[k].tail)} :
            r.d2n > max_radius * max_radius * r.d2d

\* The write is for a point of the card that is farther than max_radius
\* from every bone of the chain of the write.
WriteOfFarPoint(e, card, chains, args) ==
    FartherThanRadius(card.median[e.point], chains[e.chain], args.max_radius)

\* The number of chains used for a card.
ChainsUsed == IF bind_args.max_bones < Len(bone_chains) THEN bind_args.max_bones ELSE Len(bone_chains)

\* What C15 says of the write e, one of all the writes or one of the
\* writes of a weight for the closest bone.
WriteWithinBounds(e, card, chains, args, n) ==
    /\ FracWithin(e.weight, <<0, 1>>, <<1, 1>>)
    /\ FracWithin(e.weight, FloorOf(args), CeilingOf(args, n))
    /\ WriteOfFarPoint(e, card, chains, args) => e.weight = FloorOf(args)

\* C15 as it stands: every weight weight_card_to_bones writes is between
\* the floor of the mode and the larger of the floor and max_weight / N,
\* and it is the floor for a point farther than max_radius from every bone
\* of the chain.
C15_EveryWriteWithinBounds ==
    CardWeighted
        => \A k \in DOMAIN card_writes :
               WriteWithinBounds(card_writes[k], bind_cards[bind_card - 1], bone_chains, bind_args, ChainsUsed)

\* C15, amended: the weight written for the closest bone of a chain is
\* between the floor of the mode and the larger of the floor and
\* max_weight / N, and it is the floor for a point farther than max_radius
\* from every bone of the chain; the weight 1 - max_weight written for the
\* first bone of the chain for the CC4 target is between 0 and 1.
C15_ClosestBoneWeightWithinBounds ==
    CardWeighted
        => \A k \in DOMAIN card_writes :
               IF card_writes[k].pin
               THEN FracWithin(card_writes[k].weight, <<0, 1>>, <<1, 1>>)
               ELSE WriteWithinBounds(card_writes[k], bind_cards[bind_card - 1], bone_chains, bind_args, ChainsUsed)

\* A card was weighted for the CC4 target with a weight above the floor
\* for a near point, the floor for a far point, and a weight for the first
\* bone of a chain that is outside the bounds of the other weights.
C15_Witness ==
    /\ CardWeighted
    /\ bind_args.cc4
    /\ \E k \in DOMAIN card_writes :
           ~card_writes[k].pin /\ FracLess(<<1, 100>>, card_writes[k].weight)
    /\ \E k \in DOMAIN card_writes :
           /\ ~card_writes[k].pin
           /\ WriteOfFarPoint(card_writes[k], bind_cards[bind_card - 1], bone_chains, bind_args)
    /\ \E k \in DOMAIN card_writes :
           /\ card_writes[k].pin
           /\ ~FracWithin(card_writes[k].weight, <<1, 100>>, CeilingOf(bind_args, ChainsUsed))

\* The weight of the vertex of write e in the group of the first bone of
\* the chain of e is w.
RootWeightIs(layer, e, chains, w) ==
    /\ <<e.vert, chains[e.chain][1].name>> \in DOMAIN layer
    /\ layer[<<e.vert, chains[e.chain][1].name>>] = w

\* The weight in the layer for the vertex and bone of write e is the
\* weight of e.
WeightKept(layer, e) ==
    /\ <<e.vert, e.bone>> \in DOMAIN layer
    /\ layer[<<e.vert, e.bone>>] = e.weight

\* The first bone of the chain of write e is the bone closest to the point
\* of e.
ClosestIsRoot(e, chains) == e.bone = chains[e.chain][1].name

\* C16: after weight_card_to_bones on a card for the CC4 target, every
\* vertex that was given a weight for a bone of a chain has the weight
\* 1 - max_weight in the group of the first bone of that chain, also when
\* the first bone is the closest one; for the standard target no such
\* weight is written, and every vertex keeps the weight it was given.
C16_RootBonePinned ==
    CardWeighted
        => \A k \in DOMAIN card_writes :
               IF bind_args.cc4
               THEN RootWeightIs(weights, card_writes[k], bone_chains,
                                 <<bind_args.max_weight[2] - bind_args.max_weight[1], bind_args.max_weight[2]>>)
               ELSE ~card_writes[k].pin /\ WeightKept(weights, card_writes[k])

\* A card was weighted for the CC4 target, and for one of its vertices the
\* closest bone of a chain is the first bone, with a weight other than
\* 1 - max_weight.
C16_Witness ==
    /\ CardWeighted
    /\ bind_args.cc4
    /\ \E k \in DOMAIN card_writes :
           /\ ~card_writes[k].pin
           /\ ClosestIsRoot(card_writes[k], bone_chains)
           /\ card_writes[k].weight # FracSub(<<1, 1>>, bind_args.max_weight)

\* The chains that got a write from the card.
ChainsWritten(writes) == {writes[k].chain : k \in DOMAIN writes}

\* The names of the bones of the chains of set cs.
BonesOfChains(chains, cs) ==
    UNION {{chains[c][k].name : k \in DOMAIN chains[c]} : c \in cs}

\* No chain outside cs is nearer to the median, by the length-weighted
\* distance, than a chain of cs.
NearestChains(cs, chains, max_radius, median) ==
    \A c \in cs : \A o \in (DOMAIN chains) \ cs :
        ~FracLess(GetWeightedBoneDistance(chains[o], max_radius, median, LoopLength(median)),
                  GetWeightedBoneDistance(chains[c], max_radius, median, LoopLength(median)))

\* The weights the card wrote are for bones of the chains of cs, there are
\* n of these chains, and they are the nearest ones.
WrittenToNearest(cs, writes, card, chains, args, n) ==
    /\ Cardinality(cs) = n
    /\ \A k \in DOMAIN writes : writes[k].bone \in BonesOfChains(chains, cs)
    /\ NearestChains(cs, chains, args.max_radius, card.median)

\* C17: a card writes weights only to bones of the N chains nearest to its
\* median by the length-weighted distance, N the smaller of max_bones and
\* the number of chains; no bone of another chain gets a weight from the
\* card, and with no chain nothing is written.
C17_OnlyNearestChainsWeighted ==
    CardWeighted
        => /\ WrittenToNearest(ChainsWritten(card_writes), card_writes, bind_cards[bind_card - 1], bone_chains, bind_args, ChainsUsed)
           /\ bone_chains = <<>> => card_writes = <<>> /\ weights = <<>>

\* A card was weighted with more chains than max_bones, and a chain that
\* got no weight comes before one that did in bone_chains.
C17_Witness ==
    /\ CardWeighted
    /\ bind_args.max_bones < Len(bone_chains)
    /\ \E c \in ChainsWritten(card_writes) :
           \E o \in (DOMAIN bone_chains) \ ChainsWritten(card_writes) : o < c

(***************************************************************************)
(* SpecLine: distance_from_line applied to a point and a segment.  The     *)
(* coordinates are whole numbers of half a metre.                          *)
(***************************************************************************)
LinePoints == {<<x, y, z>> : x \in -1 .. 4, y \in 0 .. 2, z \in 0 .. 1}

LineStarts == {<<0, 0, 0>>, <<1, 1, 0>>}

LineEnds == {<<0, 0, 0>>, <<2, 0, 0>>, <<1, 1, 0>>, <<3, 2, 1>>}

LineInit ==
    /\ line_co \in LinePoints
    /\ line_start \in LineStarts
    /\ line_end \in LineEnds
    /\ line_result = <<>>
    /\ line_pc = "ready"
    /\ IslIdle
    /\ MrgIdle
    /\ RigIdle
    /\ BindIdle
    /\ PolyIdle
    /\ LoopsIdle
    /\ RemIdle
    /\ EdgesIdle
    /\ SortIdle
    /\ AccIdle
    /\ StrokesIdle

\* The call distance_from_line(co, start, end).
DistanceFromLineCall ==
    /\ line_pc = "ready"
    /\ line_result' = DistanceFromLine(line_co, line_start, line_end)
    /\ line_pc' = "returned"
    /\ UNCHANGED <<line_co, line_start, line_end>>
    /\ UNCHANGED otherThanLine

LineNext == DistanceFromLineCall

SpecLine == LineInit /\ [][LineNext]_vars

\* The result r holds the distance whose square is n / d, and the param
\* fn / fd.
ResultIs(r, n, d, fn, fd) ==
    /\ r.d2d > 0 /\ r.facd > 0
    /\ r.d2n * d = n * r.d2d
    /\ r.facn * fd = fn * r.facd

\* What C18 says of the result r for the point co and the segment from
\* start to end: t is the place of the projection of co on the line, as
\* line . (co - start), which is 0 at start and l2 = line . line at end,
\* and s2 is the square of the distance from co to start.
ResultAsSpecified(r, co, start, end, t, l2, s2) ==
    IF t <= 0 THEN ResultIs(r, s2, 1, 0, 1)
    ELSE IF t >= l2
    THEN ResultIs(r, Dot(VecSub(co, end), VecSub(co, end)), 1, 1, 1)
    ELSE ResultIs(r, s2 * l2 - t * t, l2, t, l2)

\* C18: distance_from_line returns the distance to start and param 0 when
\* the projection of co falls at or before start, the distance to end and
\* param 1 when it falls at or past end, and otherwise the perpendicular
\* distance from the line and the fraction of the projection; for the
\* segment from (0,0,0) to (1,0,0) the point (2,0,0) gives distance 1 and
\* param 1 and the point (0.5,1,0) gives distance 1 and param 0.5; a
\* segment of length 0 takes the first branch.
C18_DistanceFromLine ==
    line_pc = "returned"
        => /\ ResultAsSpecified(line_result, line_co, line_start, line_end,
                                Dot(VecSub(line_end, line_start), VecSub(line_co, line_start)),
                                Dot(VecSub(line_end, line_start), VecSub(line_end, line_start)),
                                Dot(VecSub(line_co, line_start), VecSub(line_co, line_start)))
           /\ (line_start = <<0, 0, 0>> /\ line_end = <<2, 0, 0>> /\ line_co = <<4, 0, 0>>)
                  => ResultIs(line_result, 4, 1, 1, 1)
           /\ (line_start = <<0, 0, 0>> /\ line_end = <<2, 0, 0>> /\ line_co = <<1, 2, 0>>)
                  => ResultIs(line_result, 4, 1, 1, 2)
           /\ line_start = line_end
                  => ResultIs(line_result, Dot(VecSub(line_co, line_start), VecSub(line_co, line_start)), 1, 0, 1)

\* The call has returned for a point off a segment of length 0.
C18_Witness ==
    /\ line_pc = "returned"
    /\ line_start = line_end
    /\ line_co # line_start

(***************************************************************************)
(* SpecPoly: loop_length and eval_loop_at applied to a polyline whose      *)
(* segments all have a length above 0.  The polylines and fractions are    *)
(* such that every length and every point asked for is whole.              *)
(***************************************************************************)
PolyLoops ==
    {<< <<0, 0, 0>>, <<8, 0, 0>> >>,
     << <<0, 0, 0>>, <<8, 0, 0>>, <<8, 8, 0>> >>,
     << <<0, 0, 0>>, <<16, 0, 0>>, <<16, 8, 0>> >>,
     << <<0, 0, 0>>, <<8, 0, 0>>, <<8, 8, 0>>, <<8, 8, 16>> >>,
     << <<0, 0, 0>>, <<24, 32, 0>>, <<24, 32, 40>> >>,
     << <<0, 0, 0>>, <<8, 0, 0>>, <<0, 0, 0>>, <<0, 8, 0>> >>}

PolyFacs == {<<k, 8>> : k \in 0 .. 8}

PolyInit ==
    /\ poly_loop \in PolyLoops
    /\ poly_fac \in PolyFacs
    /\ poly_length = 0
    /\ poly_point = <<>>
    /\ poly_pc = "ready"
    /\ IslIdle
    /\ MrgIdle
    /\ RigIdle
    /\ BindIdle
    /\ LineIdle
    /\ LoopsIdle
    /\ RemIdle
    /\ EdgesIdle
    /\ SortIdle
    /\ AccIdle
    /\ StrokesIdle

\* The call loop_length(loop).
LoopLengthCall ==
    /\ poly_pc = "ready"
    /\ poly_length' = LoopLength(poly_loop)
    /\ poly_pc' = "measured"
    /\ UNCHANGED <<poly_loop, poly_fac, poly_point>>
    /\ UNCHANGED otherThanPoly

\* The call eval_loop_at(loop, length, fac) with the length measured.
EvalLoopAtCall ==
    /\ poly_pc = "measured"
    /\ poly_point' = EvalLoopAt(poly_loop, poly_length, poly_fac[1], poly_fac[2])
    /\ poly_pc' = "returned"
    /\ UNCHANGED <<poly_loop, poly_fac, poly_length>>
    /\ UNCHANGED otherThanPoly

PolyNext ==
    \/ LoopLengthCall
    \/ EvalLoopAtCall

SpecPoly == PolyInit /\ [][PolyNext]_vars

\* The distance between two points, for points a whole distance apart.
WholeDist(a, b) ==
    CHOOSE d \in 0 .. Dot(VecSub(b, a), VecSub(b, a)) :
        d * d = Dot(VecSub(b, a), VecSub(b, a))

\* The sum of the distances between the consecutive points up to point i.
RECURSIVE ArcLength(_, _)
ArcLength(loop, i) ==
    IF i <= 1 THEN 0
    ELSE ArcLength(loop, i - 1) + WholeDist(loop[i - 1], loop[i])

\* Point q is on the segment from a to b, at n / d of a unit from a.
OnSegmentAt(q, a, b, n, d) ==
    /\ Cross(VecSub(q, a), VecSub(b, a)) = <<0, 0, 0>>
    /\ Dot(VecSub(q, a), VecSub(b, a)) >= 0
    /\ Dot(VecSub(q, a), VecSub(q, a)) * d * d = n * n
    /\ n >= 0
    /\ n <= WholeDist(a, b) * d

\* Point q is the point at fac of the arc length of the loop, on a segment
\* that holds that place.
AtArcFraction(q, loop, fac) ==
    \E i \in 1 .. Len(loop) - 1 :
        OnSegmentAt(q, loop[i], loop[i + 1],
                    fac[1] * ArcLength(loop, Len(loop)) - ArcLength(loop, i) * fac[2],
                    fac[2])

\* C19: for a polyline of at least 2 points with no segment of length 0,
\* loop_length is the sum of the distances between consecutive points, and
\* eval_loop_at gives the first point at 0, the last point at 1, and at a
\* fraction in between the point at that fraction of the arc length, on
\* the segment that holds it.
C19_LengthAndEval ==
    /\ poly_pc \in {"measured", "returned"}
           => poly_length = ArcLength(poly_loop, Len(poly_loop))
    /\ poly_pc = "returned"
           => /\ poly_fac = <<0, 8>> => poly_point = poly_loop[1]
              /\ poly_fac = <<8, 8>> => poly_point = poly_loop[Len(poly_loop)]
              /\ AtArcFraction(poly_point, poly_loop, poly_fac)

\* eval_loop_at has returned a point inside a segment after the first of
\* a polyline of more than one segment.
C19_Witness ==
    /\ poly_pc = "returned"
    /\ Len(poly_loop) > 2
    /\ poly_point \notin Range(poly_loop)
    /\ poly_fac[1] * poly_length > WholeDist(poly_loop[1], poly_loop[2]) * poly_fac[2]

(***************************************************************************)
(* SpecLoops: get_vert_loops, which get_hair_cards_lateral calls, and      *)
(* get_ordered_coordinate_loops, which does the same up to the order of    *)
(* the vertices of a loop: the edges given are split into loops by         *)
(* parse_loop.  The mesh has NumEdges edges in strips of up to three:      *)
(* edges 1, 2, 3 join vertices 1-2, 2-3, 3-4, edges 4, 5, 6 join vertices  *)
(* 5-6, 6-7, 7-8, and so on.                                               *)
(***************************************************************************)
\* edge.verts as vertex indices.
EdgeVerts(e) == {e + (e - 1) \div 3, e + (e - 1) \div 3 + 1}

\* An edge map that takes the linked edges from all the edges of the mesh.
GetLinkedEdgeMapOfMesh(edges) ==
    [e \in {x \in edges : \E o \in (1 .. NumEdges) \ {x} :
                              EdgeVerts(o) \cap EdgeVerts(x) # {}} |->
        {o \in (1 .. NumEdges) \ {e} : EdgeVerts(o) \cap EdgeVerts(e) # {}}]

\* geom.get_linked_edge_map(bm, edges): an edge of edges has an entry when
\* an edge of edges other than itself shares a vertex with it.
GetLinkedEdgeMap(edges) ==
    [e \in {x \in edges : \E o \in edges \ {x} : EdgeVerts(o) \cap EdgeVerts(x) # {}} |->
        {o \in edges \ {e} : EdgeVerts(o) \cap EdgeVerts(e) # {}}]

\* A call of parse_loop: its edge_index, whether it is past the test of
\* line 216, and the edges of edge_map[edge.index] its for loop has yet to
\* take.
Frame(edge_index) == [edge |-> edge_index, entered |-> FALSE, pending |-> {}]

TopFrame == call_stack[Len(call_stack)]

WithoutTop == SubSeq(call_stack, 1, Len(call_stack) - 1)

LoopsInit ==
    /\ loop_edges \in SUBSET (1 .. NumEdges)
    /\ edge_map = GetLinkedEdgeMap(loop_edges)
    /\ edges_left = loop_edges
    /\ loop_verts = {}
    /\ vert_loops = <<>>
    /\ call_stack = <<>>
    /\ loops_pc = "loops"
    /\ IslIdle
    /\ MrgIdle
    /\ RigIdle
    /\ BindIdle
    /\ LineIdle
    /\ PolyIdle
    /\ RemIdle
    /\ EdgesIdle
    /\ SortIdle
    /\ AccIdle
    /\ StrokesIdle

\* get_vert_loops, lines 270-273: a new loop is begun with an edge that is
\* left, and parse_loop is called for it.  list(edges_left)[0] is the edge
\* the set gives first, any edge of the set here.
BeginLoop ==
    /\ loops_pc = "loops"
    /\ edges_left # {}
    /\ \E edge_index \in edges_left : call_stack' = <<Frame(edge_index)>>
    /\ loop_verts' = {}
    /\ loops_pc' = "parsing"
    /\ UNCHANGED <<loop_edges, edge_map, edges_left, vert_loops>>
    /\ UNCHANGED otherThanLoops

\* parse_loop, lines 216-221: the edge is left, it is taken from edges_left
\* and its vertices are added to the loop.
ParseLoopEnter ==
    /\ loops_pc = "parsing"
    /\ ~TopFrame.entered
    /\ TopFrame.edge \in edges_left
    /\ edges_left' = edges_left \ {TopFrame.edge}
    /\ loop_verts' = loop_verts \cup EdgeVerts(TopFrame.edge)
    /\ call_stack' =
           WithoutTop \o
           <<[edge |-> TopFrame.edge, entered |-> TRUE,
              pending |-> IF TopFrame.edge \in DOMAIN edge_map
                          THEN edge_map[TopFrame.edge] ELSE {}]>>
    /\ UNCHANGED <<loop_edges, edge_map, vert_loops, loops_pc>>
    /\ UNCHANGED otherThanLoops

\* parse_loop, lines 222-223: the for loop takes the next linked edge ce
\* and calls parse_loop for it.
ParseLoopCall ==
    /\ loops_pc = "parsing"
    /\ TopFrame.entered
    /\ \E ce \in TopFrame.pending :
           call_stack' =
               WithoutTop \o
               <<[edge |-> TopFrame.edge, entered |-> TRUE,
                  pending |-> TopFrame.pending \ {ce}]>> \o
               <<Frame(ce)>>
    /\ UNCHANGED <<loop_edges, edge_map, edges_left, loop_verts, vert_loops, loops_pc>>
    /\ UNCHANGED otherThanLoops

\* parse_loop returns: its edge was not left (line 216), or its for loop
\* is over.  When the first call returns, get_vert_loops appends the loop
\* (lines 274-275).
ParseLoopReturn ==
    /\ loops_pc = "parsing"
    /\ \/ ~TopFrame.entered /\ TopFrame.edge \notin edges_left
       \/ TopFrame.entered /\ TopFrame.pending = {}
    /\ call_stack' = WithoutTop
    /\ vert_loops' = IF Len(call_stack) = 1 THEN Append(vert_loops, loop_verts) ELSE vert_loops
    /\ loops_pc' = IF Len(call_stack) = 1 THEN "loops" ELSE "parsing"
    /\ UNCHANGED <<loop_edges, edge_map, edges_left, loop_verts>>
    /\ UNCHANGED otherThanLoops

\* get_vert_loops returns (line 277).
LoopsReturn ==
    /\ loops_pc = "loops"
    /\ edges_left = {}
    /\ loops_pc' = "done"
    /\ UNCHANGED <<loop_edges, edge_map, edges_left, loop_verts, vert_loops, call_stack>>
    /\ UNCHANGED otherThanLoops

LoopsNext ==
    \/ BeginLoop
    \/ ParseLoopEnter
    \/ ParseLoopCall
    \/ ParseLoopReturn
    \/ LoopsReturn

SpecLoops == LoopsInit /\ [][LoopsNext]_vars

\* C20: the edges are split into loops by iterative frontier expansion
\* with a worklist: no call of parse_loop is made while a call of
\* parse_loop is running, so the depth of the calls is 1 whatever the
\* number of edges of the loop.
C20_CallDepthDoesNotGrow == Len(call_stack) <= 1

(***************************************************************************)
(* hair.py: remove_hair_bones (lines 483-522), with get_bone_chains and    *)
(* add_bone_chain, on an armature and the vertex groups of the meshes of   *)
(* the character.  A bone_def is kept as the name of its bone, which is    *)
(* all remove_hair_bones reads of it.                                      *)
(***************************************************************************)

\* add_bone_chain(arm, edit_bone, chain): [ok, chain]; a bone with more
\* than one child ends the chain with the value False (lines 1192-1193).
RECURSIVE AddBoneChain(_, _, _)
AddBoneChain(bs, name, chain) ==
    IF Len(Children(bs, name)) > 1 THEN [ok |-> FALSE, chain |-> chain]
    ELSE IF Len(Children(bs, name)) = 0
         THEN [ok |-> TRUE, chain |-> Append(chain, name)]
         ELSE AddBoneChain(bs, Children(bs, name)[1], Append(chain, name))

\* get_bone_chains, lines 1238-1244, from child k of a rig root: a child
\* with the hair or the beard prefix that is selected, or any such child
\* in the mode "ALL", gives a chain unless add_bone_chain returns False.
RECURSIVE ChainsFrom(_, _, _, _, _)
ChainsFrom(bs, kids, k, selection_mode, chains) ==
    IF k > Len(kids) THEN chains
    ELSE ChainsFrom(bs, kids, k + 1, selection_mode,
             IF /\ \/ StartsWith(kids[k], HAIR_BONE_PREFIX)
                   \/ StartsWith(kids[k], BEARD_BONE_PREFIX)
                /\ \/ GetBone(bs, kids[k]).select
                   \/ selection_mode = "ALL"
                /\ AddBoneChain(bs, kids[k], <<>>).ok
             THEN Append(chains, AddBoneChain(bs, kids[k], <<>>).chain)
             ELSE chains)

\* get_bone_chains, lines 1236-1237: the chains of one rig root, if any.
ChainsOfRig(bs, hair_rig, selection_mode, chains) ==
    IF hair_rig = NoBone THEN chains
    ELSE ChainsFrom(bs, Children(bs, hair_rig), 1, selection_mode,
                    chains)

\* get_bone_chains, lines 1230-1248, on the bones in edit mode.
ChainsOfRigs(bs, selection_mode) ==
    ChainsOfRig(bs, GetEditBone(bs, JAW_RIG_NAME), selection_mode,
        ChainsOfRig(bs, GetEditBone(bs, HEAD_RIG_NAME), selection_mode,
                    <<>>))

\* get_bone_chains, lines 1222-1227: the linked bones are selected.
LinkedFor(bs, selection_mode) ==
    IF selection_mode = "SELECTED" THEN SelectLinked(bs) ELSE bs

BonesAndChains(bs, selection_mode) ==
    [bones |-> bs, bone_chains |-> ChainsOfRigs(bs, selection_mode)]

\* get_bone_chains(chr_cache, arm, selection_mode): the bones as the
\* repair of line 1218 and the selection leave them, and the chains.
GetBoneChains(bs, selection_mode) ==
    BonesAndChains(LinkedFor(RepairOrphanedHairBones(bs),
                             selection_mode),
                   selection_mode)

\* Lines 490-492: the names of the bone_defs of the chains, in order.
RECURSIVE NamesOfChains(_)
NamesOfChains(chains) ==
    IF chains = <<>> THEN <<>>
    ELSE Head(chains) \o NamesOfChains(Tail(chains))

\* Lines 495-497: the bones that are hair bones and not rig roots.
AllHairBoneNames(bs) ==
    LET IsTarget(b) == IsHairBone(b.name) /\ ~IsHairRigBone(b.name)
        targets == SelectSeq(bs, IsTarget)
    IN  [i \in DOMAIN targets |-> targets[i].name]

\* A bone that changes its name takes the vertex group of its name with
\* it (Blender renames the groups of the meshes the armature deforms):
\* the groups after the bones before became the bones after, which are
\* the same bones in the same order.
RenamedGroups(groups, before, after) ==
    {IF \E i \in DOMAIN before : before[i].name = g
     THEN after[CHOOSE i \in DOMAIN before : before[i].name = g].name
     ELSE g : g \in groups}

\* remove_hair_bone_weights(arm, obj, hair_bone_list=...) on the names of
\* the vertex groups of obj (lines 1081-1095): an empty list stands for
\* all the groups of hair bones; scale_existing_weights is 1.0.
RemoveVertexGroups(groups, hair_bone_list) ==
    IF hair_bone_list = <<>> THEN {g \in groups : ~IsHairBone(g)}
    ELSE groups \ Range(hair_bone_list)

\* Lines 507-512: a rig root that is found and has no children is removed.
RemoveRigIfBare(bs, hair_rig) ==
    IF hair_rig # NoBone /\ Children(bs, hair_rig) = <<>>
    THEN RemoveEditBone(bs, hair_rig)
    ELSE bs

\* The names the vertex groups of the model are taken from.
RemGroupNames ==
    { <<"CC", "Base", "Head">>, <<"RL", "Hair", "1", "0">>,
      <<"RL", "Hair", "1", "1">>, <<"RL", "Hair", "3", "0">>,
      <<"RL", "Beard", "1", "0">>, <<"RL", "Hair", "2", "0">> }

\* The meshes of the character: one mesh with any of the groups, and for
\* some characters a second mesh.
RemObjects ==
    {<<g>> : g \in SUBSET RemGroupNames}
        \cup {<<g, {<<"CC", "Base", "Head">>, <<"RL", "Hair", "1", "0">>}>> :
                 g \in SUBSET RemGroupNames}

RemInit ==
    /\ \E scale \in Scales : rem_bones \in Armatures(scale)
    /\ rem_arm_mode \in {"OBJECT", "EDIT"}
    /\ rem_bone_mode \in {"SELECTED", "ALL"}
    /\ rem_groups \in RemObjects
    /\ rem_hair_bones = <<>>
    /\ rem_old_bones = rem_bones
    /\ rem_old_groups = rem_groups
    /\ rem_pc = "ready"
    /\ IslIdle
    /\ MrgIdle
    /\ RigIdle
    /\ BindIdle
    /\ LineIdle
    /\ PolyIdle
    /\ LoopsIdle
    /\ EdgesIdle
    /\ SortIdle
    /\ AccIdle
    /\ StrokesIdle

\* Lines 484-492, bone_mode "SELECTED": the chains of get_bone_chains,
\* which repairs the orphans, selects the linked bones and leaves the
\* armature in object mode.
CollectSelected ==
    /\ rem_pc = "ready"
    /\ rem_bone_mode = "SELECTED"
    /\ \E r \in {GetBoneChains(rem_bones, rem_bone_mode)} :
           /\ rem_bones' = r.bones
           /\ rem_hair_bones' = NamesOfChains(r.bone_chains)
           /\ rem_groups' = [o \in DOMAIN rem_groups |->
                                RenamedGroups(rem_groups[o], rem_bones,
                                              r.bones)]
    /\ rem_arm_mode' = ObjectModeTo(rem_arm_mode)
    /\ rem_pc' = "collected"
    /\ UNCHANGED <<rem_bone_mode, rem_old_bones, rem_old_groups>>
    /\ UNCHANGED otherThanRem

\* Lines 484-486 and 493-497, any other bone_mode: every hair bone that
\* is not a rig root.
CollectAll ==
    /\ rem_pc = "ready"
    /\ rem_bone_mode # "SELECTED"
    /\ rem_hair_bones' = AllHairBoneNames(rem_bones)
    /\ rem_arm_mode' = ObjectModeTo(rem_arm_mode)
    /\ rem_pc' = "collected"
    /\ UNCHANGED <<rem_bones, rem_bone_mode, rem_groups, rem_old_bones,
                   rem_old_groups>>
    /\ UNCHANGED otherThanRem

\* Lines 502-512: with a list that is not empty the armature goes to edit
\* mode and the listed bones are removed; the two rig roots are looked up
\* in the mode the armature is in, and removed when they have no children.
RemoveListedBones ==
    /\ rem_pc = "collected"
    /\ LET mode == IF rem_hair_bones # <<>> THEN EditModeTo(rem_arm_mode)
                   ELSE rem_arm_mode
       IN  /\ rem_arm_mode' = mode
           /\ \E bs \in {RemoveBones(rem_bones, rem_hair_bones)} :
                  rem_bones' =
                      RemoveRigIfBare(
                          RemoveRigIfBare(bs,
                              LookUpRig(mode, bs, "HEAD").bone),
                          LookUpRig(mode, bs, "JAW").bone)
    /\ rem_pc' = "removed"
    /\ UNCHANGED <<rem_bone_mode, rem_groups, rem_hair_bones, rem_old_bones,
                   rem_old_groups>>
    /\ UNCHANGED otherThanRem

\* Lines 515-522: the weights of the listed bones are removed from every
\* mesh, and the armature goes to object mode.
RemoveWeights ==
    /\ rem_pc = "removed"
    /\ rem_groups' = [o \in DOMAIN rem_groups |->
                         RemoveVertexGroups(rem_groups[o], rem_hair_bones)]
    /\ rem_arm_mode' = ObjectModeTo(rem_arm_mode)
    /\ rem_pc' = "done"
    /\ UNCHANGED <<rem_bones, rem_bone_mode, rem_hair_bones, rem_old_bones,
                   rem_old_groups>>
    /\ UNCHANGED otherThanRem

RemNext == CollectSelected \/ CollectAll \/ RemoveListedBones \/ RemoveWeights

SpecRemove == RemInit /\ [][RemNext]_vars

RemDone == rem_pc = "done"

\* The bones at the call, under the names the repair of the orphans in
\* get_bone_chains gives them: a renamed bone is not a removed bone.
BonesAtCall ==
    IF rem_bone_mode = "SELECTED" THEN RepairOrphanedHairBones(rem_old_bones)
    ELSE rem_old_bones

\* The vertex groups of a mesh at the call, under the same names.
GroupsAtCall(o) == RenamedGroups(rem_old_groups[o], rem_old_bones, BonesAtCall)

\* The names of the bones the call removed.
BonesRemoved == BoneNames(BonesAtCall) \ BoneNames(rem_bones)

RigRoots == {HEAD_RIG_NAME, JAW_RIG_NAME}

\* The bone and the bones below it.
Descendants(bs, name) == Range(GetLinkedBones(bs, name, <<>>))

\* The bones of the chains that hold a selected bone, a chain being a
\* child of a rig root and the bones below it.
SelectedChainBones(bs) ==
    {n \in BoneNames(bs) :
        \E rig \in RigRoots \cap BoneNames(bs) :
            \E r \in Range(Children(bs, rig)) :
                /\ IsHairBone(r)
                /\ n \in Descendants(bs, r)
                /\ \E m \in Descendants(bs, r) : GetBone(bs, m).select}

\* The bones the call is to remove.
TargetedBones ==
    IF rem_bone_mode = "SELECTED" THEN SelectedChainBones(BonesAtCall)
    ELSE {n \in BoneNames(BonesAtCall) : IsHairBone(n) /\ n \notin RigRoots}

ExactlyTargetedRemoved == BonesRemoved \ RigRoots = TargetedBones

RigRemovedOnlyWhenBare ==
    \A rig \in RigRoots \cap BonesRemoved :
        Descendants(BonesAtCall, rig) \subseteq BonesRemoved

GroupsOfRemovedBonesRemoved ==
    \A o \in DOMAIN rem_groups :
        rem_groups[o] = GroupsAtCall(o) \ BonesRemoved

\* C21: when remove_hair_bones has returned, the bones it removed are the
\* targeted bones (and a rig root only if no bone below it is left), and
\* each mesh has lost the vertex groups named after the removed bones and
\* no other group.
C21_RemovesTargetedBonesAndTheirGroups ==
    RemDone =>
        /\ ExactlyTargetedRemoved
        /\ RigRemovedOnlyWhenBare
        /\ GroupsOfRemovedBonesRemoved

(***************************************************************************)
(* geom.py: get_uv_aligned_edges (lines 329-357) on a strip of three quads *)
(* between two columns of four vertices.  Vertex 2r + c + 1 is in row r    *)
(* and column c; face f has the vertices of rows f - 1 and f.  Edges 1..4  *)
(* are the rungs of the rows, 5..7 the left and 8..10 the right sides of   *)
(* the faces.  A dot product is compared with the threshold in squares, so *)
(* that the normalized vector need not be written down.                    *)
(***************************************************************************)
StripFaces == 1 .. 3

StripEdges == 1 .. 10

\* edge.verts of bm.edges[e], as <<verts[0], verts[1]>>
StripEdgeVerts(e) ==
    IF e <= 4 THEN <<2 * e - 1, 2 * e>>
    ELSE IF e <= 7 THEN <<2 * (e - 4) - 1, 2 * (e - 4) + 1>>
         ELSE <<2 * (e - 7), 2 * (e - 7) + 2>>

\* face.edges of bm.faces[f]
StripFaceEdges(f) == {f, f + 1, 4 + f, 7 + f}

\* Lines 333-338: the edges of the faces of the island.
EdgesOfIsland(island) == UNION {StripFaceEdges(f) : f \in island}

\* Lines 344-346: V = uv1 - uv0 of an edge.
EdgeUV(uv_map, e) ==
    <<uv_map[StripEdgeVerts(e)[2]][1] - uv_map[StripEdgeVerts(e)[1]][1],
      uv_map[StripEdgeVerts(e)[2]][2] - uv_map[StripEdgeVerts(e)[1]][2]>>

\* The test with > in the place of >=.
AbsDotAtLeastStrict(V, dir, dir_threshold) ==
    IF V = <<0, 0>> THEN dir_threshold[1] < 0
    ELSE (dir[1] * V[1] + dir[2] * V[2]) * (dir[1] * V[1] + dir[2] * V[2])
             * dir_threshold[2] * dir_threshold[2]
         > dir_threshold[1] * dir_threshold[1] * dir[3] * dir[3]
             * (V[1] * V[1] + V[2] * V[2])

\* Lines 347-355, abs(dot) >= dir_threshold for the normalized V and
\* dir = <<x, y>> / n: with dot = (dir . V) / |V|, the test is
\* (x Vx + y Vy)^2 td^2 >= tn^2 n^2 |V|^2.  V.normalize() leaves a vector
\* of length 0 as it is, and dot is 0 then.
AbsDotAtLeast(V, dir, dir_threshold) ==
    IF V = <<0, 0>> THEN dir_threshold[1] <= 0
    ELSE (dir[1] * V[1] + dir[2] * V[2]) * (dir[1] * V[1] + dir[2] * V[2])
             * dir_threshold[2] * dir_threshold[2]
         >= dir_threshold[1] * dir_threshold[1] * dir[3] * dir[3]
             * (V[1] * V[1] + V[2] * V[2])

\* get_uv_aligned_edges(bm, island, dir, uv_map, get_non_aligned,
\* dir_threshold)
GetUVAlignedEdges(island, dir, uv_map, get_non_aligned, dir_threshold) ==
    {e \in EdgesOfIsland(island) :
        IF get_non_aligned
        THEN ~AbsDotAtLeast(EdgeUV(uv_map, e), dir, dir_threshold)
        ELSE AbsDotAtLeast(EdgeUV(uv_map, e), dir, dir_threshold)}

\* The uv maps of the model: the strip upright, the strip leaning with
\* sides along <<3, 4>>, and the upright strip with its first rung of
\* length 0.
UVUpright == [v \in 1 .. 8 |-> <<4 * ((v - 1) % 2), 4 * ((v - 1) \div 2)>>]

UVLeaning ==
    [v \in 1 .. 8 |->
        <<4 * ((v - 1) % 2) + 3 * ((v - 1) \div 2), 4 * ((v - 1) \div 2)>>]

UVPinched == [UVUpright EXCEPT ![2] = <<0, 0>>]

EdgeDirs ==
    {<<0, 1, 1>>, <<1, 0, 1>>, <<0, -1, 1>>, <<3, 4, 5>>, <<4, -3, 5>>}

EdgeThresholds == {<<1, 2>>, <<9, 10>>, <<1, 1>>}

EdgesInit ==
    /\ ae_island \in SUBSET StripFaces \ {{}}
    /\ ae_dir \in EdgeDirs
    /\ ae_threshold \in EdgeThresholds
    /\ ae_uv_map \in {UVUpright, UVLeaning, UVPinched}
    /\ ae_aligned = {}
    /\ ae_lateral = {}
    /\ ae_called = {}
    /\ IslIdle
    /\ MrgIdle
    /\ RigIdle
    /\ BindIdle
    /\ LineIdle
    /\ PolyIdle
    /\ LoopsIdle
    /\ RemIdle
    /\ SortIdle
    /\ AccIdle
    /\ StrokesIdle

\* The call with get_non_aligned = False (hair.py, line 369).
GetAlignedEdges ==
    /\ "aligned" \notin ae_called
    /\ ae_aligned' = GetUVAlignedEdges(ae_island, ae_dir, ae_uv_map, FALSE,
                                       ae_threshold)
    /\ ae_called' = ae_called \cup {"aligned"}
    /\ UNCHANGED <<ae_island, ae_dir, ae_threshold, ae_uv_map, ae_lateral>>
    /\ UNCHANGED otherThanEdges

\* The call with get_non_aligned = True (hair.py, line 925).
GetNonAlignedEdges ==
    /\ "lateral" \notin ae_called
    /\ ae_lateral' = GetUVAlignedEdges(ae_island, ae_dir, ae_uv_map, TRUE,
                                       ae_threshold)
    /\ ae_called' = ae_called \cup {"lateral"}
    /\ UNCHANGED <<ae_island, ae_dir, ae_threshold, ae_uv_map, ae_aligned>>
    /\ UNCHANGED otherThanEdges

EdgesNext == GetAlignedEdges \/ GetNonAlignedEdges

SpecEdges == EdgesInit /\ [][EdgesNext]_vars

\* The edges of the mesh that are edges of a face of the island.
ConsideredEdges ==
    {e \in StripEdges : \E f \in ae_island : e \in StripFaceEdges(f)}

\* The edges on the outline of the island: edges of one face of it only.
OutlineEdges ==
    {e \in StripEdges :
        Cardinality({f \in ae_island : e \in StripFaceEdges(f)}) = 1}

\* d^2 of an edge, d the absolute dot product of the normalized uv
\* direction of the edge with the reference direction, as a fraction.
DotSquared(e) ==
    LET a == ae_uv_map[StripEdgeVerts(e)[1]]
        b == ae_uv_map[StripEdgeVerts(e)[2]]
        along == ae_dir[1] * (b[1] - a[1]) + ae_dir[2] * (b[2] - a[2])
        len2 == (b[1] - a[1]) * (b[1] - a[1]) + (b[2] - a[2]) * (b[2] - a[2])
    IN  IF len2 = 0 THEN <<0, 1>>
        ELSE <<along * along, ae_dir[3] * ae_dir[3] * len2>>

\* d < dir_threshold, both being at least 0.
BelowThreshold(e) ==
    FracLess(DotSquared(e),
             <<ae_threshold[1] * ae_threshold[1],
               ae_threshold[2] * ae_threshold[2]>>)

\* The two results are those of the edges of the set considered.
ResultsOver(considered) ==
    /\ "aligned" \in ae_called =>
           ae_aligned = {e \in considered : ~BelowThreshold(e)}
    /\ "lateral" \in ae_called =>
           ae_lateral = {e \in considered : BelowThreshold(e)}

BothCalled == ae_called = {"aligned", "lateral"}

\* C22 as stated: the edges considered are the edges on the outline of the
\* island, and no edge of a face that is not of the island is returned.
C22_OutlineEdgesOnly ==
    /\ ResultsOver(OutlineEdges)
    /\ \A e \in ae_aligned \cup ae_lateral :
           \A f \in StripFaces \ ae_island : e \notin StripFaceEdges(f)

\* C22: get_uv_aligned_edges considers every edge of the faces of the
\* island; in aligned mode it returns those of them with d >= dir_threshold
\* and in lateral mode those with d < dir_threshold, so that for one
\* threshold the two results are disjoint and together are the edges
\* considered, and every edge returned is an edge of a face of the island.
C22_AlignedAndLateralEdges ==
    /\ ResultsOver(ConsideredEdges)
    /\ BothCalled =>
           /\ ae_aligned \cap ae_lateral = {}
           /\ ae_aligned \cup ae_lateral = ConsideredEdges

\* Both calls were made for the island of faces 1 and 2: the rung between
\* the two faces is returned in one mode, a side in the other.
C22_Witness ==
    /\ BothCalled
    /\ ae_island = {1, 2}
    /\ 2 \in ae_lateral
    /\ 5 \in ae_aligned
    /\ 2 \notin OutlineEdges

\* Two edges of the mesh share an endpoint vertex.
ShareVertex(a, b) == EdgeVerts(a) \cap EdgeVerts(b) # {}

\* The edges the map links to an edge.
LinkedTo(e) == IF e \in DOMAIN edge_map THEN edge_map[e] ELSE {}

\* The edges of loop_edges that a chain of shared vertices joins to an
\* edge of the set S.
RECURSIVE JoinedTo(_)
JoinedTo(S) ==
    IF \E o \in loop_edges \ S : \E x \in S : ShareVertex(o, x)
    THEN JoinedTo(S \cup {o \in loop_edges : \E x \in S : ShareVertex(o, x)})
    ELSE S

\* The connected components of loop_edges, each as its set of vertices.
ComponentVerts ==
    {UNION {EdgeVerts(x) : x \in JoinedTo({e})} : e \in loop_edges}

LoopsDone == loops_pc = "done"

\* C23: the edge map links two edges exactly when they are distinct edges
\* of the filtered set that share a vertex, and when get_vert_loops has
\* returned there is one loop for each connected component of the set: the
\* loops are the vertex sets of the components, each once, so that the two
\* vertices of every edge are in exactly one loop and no vertex is in two.
C23_OneLoopPerComponent ==
    /\ \A e \in 1 .. NumEdges : \A o \in 1 .. NumEdges :
           o \in LinkedTo(e) <=>
               (e # o /\ e \in loop_edges /\ o \in loop_edges
                   /\ ShareVertex(e, o))
    /\ LoopsDone =>
           /\ Range(vert_loops) = ComponentVerts
           /\ Len(vert_loops) = Cardinality(ComponentVerts)
           /\ \A e \in loop_edges :
                  Cardinality({i \in DOMAIN vert_loops :
                                  EdgeVerts(e) \subseteq vert_loops[i]}) = 1
           /\ \A i \in DOMAIN vert_loops : \A j \in DOMAIN vert_loops :
                  i # j => vert_loops[i] \cap vert_loops[j] = {}

\* get_vert_loops has returned two loops, one of a single edge and one of
\* linked edges, for a set that leaves out an edge of the mesh.
C23_Witness ==
    /\ LoopsDone
    /\ Len(vert_loops) = 2
    /\ \E i \in DOMAIN vert_loops : Cardinality(vert_loops[i]) = 2
    /\ \E i \in DOMAIN vert_loops : Cardinality(vert_loops[i]) > 2
    /\ loop_edges # 1 .. NumEdges

(***************************************************************************)
(* hair.py: sort_verts_by_uv (lines 234-247) and sort_lateral_card (lines  *)
(* 301-329).  A vertex stands for its world coordinate, a loop for its     *)
(* mean coordinate; a uv coordinate is a pair of whole numbers.            *)
(***************************************************************************)

\* list.sort(reverse, key) is stable: of two elements with the same key
\* the one that was first stays first, with reverse set as well.
KeyBefore(keys, reverse, a, b) ==
    \/ IF reverse THEN keys[a] > keys[b] ELSE keys[a] < keys[b]
    \/ keys[a] = keys[b] /\ a < b

\* The places of the list in the order list.sort leaves them in.
StableSort(keys, reverse) ==
    [r \in DOMAIN keys |->
        CHOOSE c \in DOMAIN keys :
            Cardinality({x \in DOMAIN keys : KeyBefore(keys, reverse, x, c)})
                = r - 1]

\* sort_func_u and sort_func_v over a list of uv coordinates.
KeysU(uvs) == [i \in DOMAIN uvs |-> uvs[i][1]]

KeysV(uvs) == [i \in DOMAIN uvs |-> uvs[i][2]]

\* Lines 239-246 and 318-325: the sort by u when dir.x is not 0, by v
\* otherwise, descending when the component is negative (or both are 0).
SortByDir(uvs, dir) ==
    IF dir[1] > 0 THEN StableSort(KeysU(uvs), FALSE)
    ELSE IF dir[1] < 0 THEN StableSort(KeysU(uvs), TRUE)
         ELSE IF dir[2] > 0 THEN StableSort(KeysV(uvs), FALSE)
              ELSE StableSort(KeysV(uvs), TRUE)

\* uv_map of the model: vertex index -> uv.
SortUV ==
    << <<0, 0>>, <<2, 0>>, <<0, 2>>, <<2, 2>>, <<0, 4>>, <<4, 2>> >>

\* sort_verts_by_uv(obj, bm, loop, uv_map, dir): the vertices in the
\* order of the coordinates returned.
SortVertsByUV(loop, uv_map, dir) ==
    LET order == SortByDir([i \in DOMAIN loop |-> uv_map[loop[i]]], dir)
    IN  [r \in DOMAIN loop |-> loop[order[r]]]

\* Lines 307-315: the mean uv of a loop of two vertices.
MeanUV(uv_map, verts) ==
    LET a == CHOOSE v \in verts : \A w \in verts : v <= w
        b == CHOOSE v \in verts : \A w \in verts : v >= w
    IN  <<(uv_map[a][1] + uv_map[b][1]) \div 2,
          (uv_map[a][2] + uv_map[b][2]) \div 2>>

\* sort_lateral_card(obj, bm, loops, uv_map, dir): card["loops"].
SortLateralCard(card_loops_in, uv_map, dir) ==
    LET order == SortByDir([i \in DOMAIN card_loops_in |->
                               MeanUV(uv_map, card_loops_in[i])], dir)
    IN  [r \in DOMAIN card_loops_in |-> card_loops_in[order[r]]]

\* The sequences of k different elements of a set.
DistinctSeqs(S, k) ==
    {s \in [1 .. k -> S] : \A i \in 1 .. k : \A j \in 1 .. k :
                               i # j => s[i] # s[j]}

SortDirs ==
    {<<0, 1, 1>>, <<0, -1, 1>>, <<1, 0, 1>>, <<-1, 0, 1>>, <<3, 4, 5>>,
     <<4, -3, 5>>, <<-3, -4, 5>>}

\* The lateral loops of the model, each of two vertices.
LateralLoops == {{1, 2}, {3, 4}, {5, 6}, {2, 6}}

SortInit ==
    /\ srt_dir \in SortDirs
    /\ \/ /\ srt_pc = "verts"
          /\ srt_loop \in DistinctSeqs(DOMAIN SortUV, 3)
          /\ srt_loops = <<>>
       \/ /\ srt_pc = "card"
          /\ srt_loop = <<>>
          /\ srt_loops \in DistinctSeqs(LateralLoops, 2)
                               \cup DistinctSeqs(LateralLoops, 3)
    /\ srt_sorted = <<>>
    /\ srt_card = <<>>
    /\ IslIdle
    /\ MrgIdle
    /\ RigIdle
    /\ BindIdle
    /\ LineIdle
    /\ PolyIdle
    /\ LoopsIdle
    /\ RemIdle
    /\ EdgesIdle
    /\ AccIdle
    /\ StrokesIdle

SortVertsByUVCall ==
    /\ srt_pc = "verts"
    /\ srt_sorted' = SortVertsByUV(srt_loop, SortUV, srt_dir)
    /\ srt_pc' = "sorted"
    /\ UNCHANGED <<srt_loop, srt_loops, srt_dir, srt_card>>
    /\ UNCHANGED otherThanSort

SortLateralCardCall ==
    /\ srt_pc = "card"
    /\ srt_card' = SortLateralCard(srt_loops, SortUV, srt_dir)
    /\ srt_pc' = "sorted"
    /\ UNCHANGED <<srt_loop, srt_loops, srt_dir, srt_sorted>>
    /\ UNCHANGED otherThanSort

SortNext == SortVertsByUVCall \/ SortLateralCardCall

SpecSort == SortInit /\ [][SortNext]_vars

\* The projection of a uv coordinate onto dir, times the length n of
\* <<x, y>>.
Projection(uv, dir) == dir[1] * uv[1] + dir[2] * uv[2]

\* The sign of the component of dir of the largest absolute value.
DominantSign(dir) ==
    IF Abs(dir[1]) >= Abs(dir[2])
    THEN (IF dir[1] >= 0 THEN 1 ELSE -1)
    ELSE (IF dir[2] >= 0 THEN 1 ELSE -1)

\* The coordinate of a uv coordinate on the dominant axis of dir.
DominantCoordinate(uv, dir) ==
    IF Abs(dir[1]) >= Abs(dir[2]) THEN uv[1] ELSE uv[2]

\* The uv coordinates are in the order of their projections onto dir,
\* the least first.
InProjectionOrder(uvs, dir) ==
    \A i \in DOMAIN uvs : \A j \in DOMAIN uvs :
        i < j => Projection(uvs[i], dir) <= Projection(uvs[j], dir)

\* The uv coordinates are in the order of their coordinates on the
\* dominant axis of dir, ascending for a positive component of dir and
\* descending for a negative one.
InDominantAxisOrder(uvs, dir) ==
    \A i \in DOMAIN uvs : \A j \in DOMAIN uvs :
        i < j => DominantSign(dir) * DominantCoordinate(uvs[i], dir)
                     <= DominantSign(dir) * DominantCoordinate(uvs[j], dir)

\* One of the two orders: they are the same order for a direction along
\* a uv axis.
InOrderAlong(uvs, dir) ==
    InProjectionOrder(uvs, dir) \/ InDominantAxisOrder(uvs, dir)

SortedUVs == [i \in DOMAIN srt_sorted |-> SortUV[srt_sorted[i]]]

CardUVs == [i \in DOMAIN srt_card |-> MeanUV(SortUV, srt_card[i])]

AxisAligned(dir) == dir[1] = 0 \/ dir[2] = 0

\* C24: what sort_verts_by_uv and sort_lateral_card return is in the
\* order of the projections of the uv coordinates onto the reference
\* direction (or, read by the dominant axis, in the order of the
\* coordinates on that axis, by its sign), for every unit direction.
C24_OrderedAlongDirection ==
    srt_pc = "sorted" =>
        /\ InOrderAlong(SortedUVs, srt_dir)
        /\ InOrderAlong(CardUVs, srt_dir)

\* The chain loop_to_bones has just made, as the bones of the armature.
MadeBone(s) == GetBone(edit_bones, last_call.made[s])

\* The fraction of the loop that is skipped, in lowest terms:
\* skip_length / length, the skip length held to three quarters of the
\* length.
SkipFraction(loop) ==
    IF 4 * arg_skip_length <= 3 * LoopLength(loop)
    THEN Frac(arg_skip_length, LoopLength(loop))
    ELSE <<3, 4>>

\* Point q lies at the fraction fac of the arc length of the loop, on a
\* segment that holds that place; the segments are of whole length.
PointAtFraction(q, loop, fac) ==
    \E i \in 1 .. Len(loop) - 1 :
        LET along == fac[1] * LoopLength(loop)
                         - LoopLengthTo(loop, i - 1) * fac[2]
        IN  /\ Cross(VecSub(q, loop[i]), VecSub(loop[i + 1], loop[i]))
                   = <<0, 0, 0>>
            /\ Dot(VecSub(q, loop[i]), VecSub(loop[i + 1], loop[i])) >= 0
            /\ Dot(VecSub(q, loop[i]), VecSub(q, loop[i])) * fac[2] * fac[2]
                   = along * along
            /\ along >= 0
            /\ along <= VecLength(VecSub(loop[i + 1], loop[i])) * fac[2]

\* C25: the chain loop_to_bones has made is one line from root to tip.
\* Its first bone is an unconnected child of the rig root and each later
\* bone the connected and only child of the bone before it; bone s is
\* named <prefix>_<loop index>_<s>, s from 0; the tail of a bone is the
\* head of the next; the first head is at the skipped fraction of the arc
\* length of the loop and the last tail at the last point of the loop.
C25_ChainIsOneLine ==
    AfterLoopToBones =>
        \A s \in DOMAIN last_call.made :
            /\ last_call.made[s] =
                   ChainBoneName(GetHairBonePrefix(arg_parent_mode),
                                 last_call.index, s - 1)
            /\ MadeBone(s).parent =
                   IF s = 1 THEN HairRigName(arg_parent_mode)
                   ELSE last_call.made[s - 1]
            /\ MadeBone(s).connect = (s > 1)
            /\ Children(edit_bones, last_call.made[s]) =
                   IF s < Len(last_call.made) THEN <<last_call.made[s + 1]>>
                   ELSE <<>>
            /\ s < Len(last_call.made) =>
                   MadeBone(s).tail = MadeBone(s + 1).head
            /\ s = 1 =>
                   PointAtFraction(ToWorld(MadeBone(s).head, arm_scale),
                                   last_call.loop,
                                   SkipFraction(last_call.loop))
            /\ s = Len(last_call.made) =>
                   ToWorld(MadeBone(s).tail, arm_scale) =
                       last_call.loop[Len(last_call.loop)]

\* A chain of more than one bone was made on a scaled armature from a
\* loop with a bend, part of the loop skipped.
C25_Witness ==
    /\ AfterLoopToBones
    /\ Len(last_call.made) > 1
    /\ Len(last_call.loop) > 2
    /\ arg_skip_length > 0
    /\ arm_scale # <<1, 1, 1>>

\* The number of bones of the name of the rig root of a parent mode.
RigRootCount(bs, rig_parent_mode) ==
    Cardinality({i \in DOMAIN bs : bs[i].name = HairRigName(rig_parent_mode)})

\* The last step that changed the bones gave the armature the rig root of
\* the mode.
RigRootAdded(rig_parent_mode) ==
    /\ old_bones # <<>>
    /\ HasBone(edit_bones, HairRigName(rig_parent_mode))
    /\ ~HasBone(old_bones, HairRigName(rig_parent_mode))

\* C26: the armature never holds two rig roots of one name.  A rig root
\* appears only in a step that calls get_hair_rig with create_if_missing
\* for the parent mode of the operation when the armature had none, and it
\* is then a child of the root bone of that mode; the steps that look the
\* rig roots up without create_if_missing (the repair of the orphans, the
\* removal of existing chains and of duplicates) add no bone.
C26_AtMostOneRigRootEach ==
    /\ \A m \in {"HEAD", "JAW"} :
           /\ RigRootCount(edit_bones, m) <= 1
           /\ RigRootAdded(m) =>
                  /\ m = arg_parent_mode
                  /\ rig_pc \in {"generating", "generated", "raised",
                                 "resolved", "deduped"}
                  /\ GetBone(edit_bones, HairRigName(m)).parent
                         = GetRootBoneName(old_bones, m)
                  /\ GetRootBoneName(old_bones, m) # NoBone
    /\ rig_pc \in {"repaired", "cleared"}
           => Len(edit_bones) <= Len(old_bones)
    /\ rig_pc = "deduped"
           => Len(edit_bones) <= Len(old_bones)

\* A chain was generated under the jaw rig root, which the call made as a
\* child of the jaw root bone on an armature that had the head rig root,
\* and a later call of loop_to_bones found it there.
C26_Witness ==
    /\ rig_pc = "generating"
    /\ arg_parent_mode = "JAW"
    /\ last_call.ok
    /\ RigRootCount(edit_bones, "JAW") = 1
    /\ RigRootCount(edit_bones, "HEAD") = 1
    /\ GetBone(edit_bones, JAW_RIG_NAME).parent = <<"CC", "Base", "JawRoot">>
    /\ HasBone(old_bones, JAW_RIG_NAME)
    /\ Len(made_bones) > Len(last_call.made)

\* A card assign_bones cannot weight: its median has one point or is of
\* length 0.
Unweightable(card) == Len(card.median) < 2 \/ LoopLength(card.median) = 0

\* The vertices of the cards assign_bones can weight.
WeightableVerts ==
    UNION {UNION {Range(bind_cards[c].loops[k]) :
                     k \in DOMAIN bind_cards[c].loops} :
              c \in {x \in DOMAIN bind_cards : ~Unweightable(bind_cards[x])}}

\* C27: assign_bones never raises: a card it cannot weight is passed over
\* and the cards after it are weighted, so that when bind_cards_to_bones
\* has returned every vertex of a card that can be weighted has a weight
\* if there is a chain to weight it to.
C27_UnweightableCardSkipped ==
    /\ bind_pc # "raised"
    /\ bind_pc = "done" /\ bone_chains # <<>> =>
           \A v \in WeightableVerts : \E key \in DOMAIN weights : key[1] = v

(***************************************************************************)
(* hair.py: convert_hair_rigs_to_accessory (lines 1541-1567) over a list   *)
(* of mesh objects.  A vertex group is known by the object that owns it    *)
(* and by its name.                                                        *)
(***************************************************************************)

\* is_hair_rig_accessory(obj) for one object (lines 1531-1537), on the
\* names of its vertex groups.
IsHairRigAccessory(names) ==
    [is_hair_rig |-> \E i \in DOMAIN names : IsHairBone(names[i]),
     is_accessory |-> \A i \in DOMAIN names : IsHairBone(names[i])]

\* Lines 1559-1561: the groups of object o that are not of hair bones.
NonHairGroups(objs, o) ==
    LET NotHair(n) == ~IsHairBone(n)
        names == SelectSeq(objs[o], NotHair)
    IN  [i \in DOMAIN names |-> <<o, names[i]>>]

\* Lines 1552-1561 from object o on: groups_to_remove.
RECURSIVE GroupsToRemove(_, _, _)
GroupsToRemove(objs, o, list) ==
    IF o > Len(objs) THEN list
    ELSE GroupsToRemove(objs, o + 1,
             IF /\ IsHairRigAccessory(objs[o]).is_hair_rig
                /\ ~IsHairRigAccessory(objs[o]).is_accessory
             THEN list \o NonHairGroups(objs, o)
             ELSE list)

\* obj.vertex_groups.remove(vg) for a group of the object.
WithoutGroup(names, name) ==
    LET Other(n) == n # name
    IN  SelectSeq(names, Other)

AccGroupLists ==
    { <<>>,
      << <<"RL", "Hair", "1", "0">> >>,
      << <<"CC", "Base", "Head">> >>,
      << <<"CC", "Base", "Head">>, <<"RL", "Hair", "1", "0">> >>,
      << <<"RL", "Beard", "1", "0">>, <<"CC", "Base", "Head">> >>,
      << <<"CC", "Base", "Head">>, <<"CC", "Base", "Spine">>,
         <<"RL", "Hair", "1", "0">> >> }

AccInit ==
    /\ acc_groups \in [1 .. 1 -> AccGroupLists] \cup [1 .. 2 -> AccGroupLists]
                          \cup [1 .. 3 -> AccGroupLists]
    /\ acc_old_groups = acc_groups
    /\ groups_to_remove = <<>>
    /\ acc_k = 0
    /\ acc_pc = "ready"
    /\ IslIdle
    /\ MrgIdle
    /\ RigIdle
    /\ BindIdle
    /\ LineIdle
    /\ PolyIdle
    /\ LoopsIdle
    /\ RemIdle
    /\ EdgesIdle
    /\ SortIdle
    /\ StrokesIdle

\* Lines 1550-1561: the groups to remove are collected from the objects.
CollectGroups ==
    /\ acc_pc = "ready"
    /\ groups_to_remove' = GroupsToRemove(acc_groups, 1, <<>>)
    /\ acc_k' = 1
    /\ acc_pc' = "removing"
    /\ UNCHANGED <<acc_groups, acc_old_groups>>
    /\ UNCHANGED otherThanAcc

\* Lines 1564-1565, a group of the last object of the list: obj is still
\* the last object the loop of line 1552 took, and the group is removed
\* from it.
RemoveOwnGroup ==
    /\ acc_pc = "removing"
    /\ acc_k <= Len(groups_to_remove)
    /\ groups_to_remove[acc_k][1] = Len(acc_groups)
    /\ acc_groups' =
           [acc_groups EXCEPT ![Len(acc_groups)] =
               WithoutGroup(@, groups_to_remove[acc_k][2])]
    /\ acc_k' = acc_k + 1
    /\ UNCHANGED <<acc_old_groups, groups_to_remove, acc_pc>>
    /\ UNCHANGED otherThanAcc

\* Lines 1564-1565, a group of another object: the last object is asked
\* to remove a group that is not its own.  The call raises (Blender
\* reports that the group is not in the object), or it does nothing and
\* the loop goes on; the group stays with its owner in both cases.
RemoveForeignGroup ==
    /\ acc_pc = "removing"
    /\ acc_k <= Len(groups_to_remove)
    /\ groups_to_remove[acc_k][1] # Len(acc_groups)
    /\ \/ acc_pc' = "raised" /\ acc_k' = acc_k
       \/ acc_pc' = "removing" /\ acc_k' = acc_k + 1
    /\ UNCHANGED <<acc_groups, acc_old_groups, groups_to_remove>>
    /\ UNCHANGED otherThanAcc

\* Line 1567.
AccReturn ==
    /\ acc_pc = "removing"
    /\ acc_k > Len(groups_to_remove)
    /\ acc_pc' = "done"
    /\ UNCHANGED <<acc_groups, acc_old_groups, groups_to_remove, acc_k>>
    /\ UNCHANGED otherThanAcc

AccNext == CollectGroups \/ RemoveOwnGroup \/ RemoveForeignGroup \/ AccReturn

SpecAccessory == AccInit /\ [][AccNext]_vars

\* The object had groups of hair bones and other groups at the call.
MixedAtCall(o) ==
    /\ \E i \in DOMAIN acc_old_groups[o] : IsHairBone(acc_old_groups[o][i])
    /\ \E i \in DOMAIN acc_old_groups[o] : ~IsHairBone(acc_old_groups[o][i])

\* C28: convert_hair_rigs_to_accessory returns, and every object that had
\* both hair-bone groups and other groups is left with its hair-bone groups
\* alone, while the groups of every other object are as they were,
\* whatever the number of objects.
C28_NonHairGroupsRemovedFromOwners ==
    /\ acc_pc # "raised"
    /\ acc_pc = "done" =>
           \A o \in DOMAIN acc_groups :
               IF MixedAtCall(o)
               THEN Range(acc_groups[o]) =
                        {n \in Range(acc_old_groups[o]) : IsHairBone(n)}
               ELSE acc_groups[o] = acc_old_groups[o]

\* A well-formed rig: the two rig roots are there, every bone of the hair
\* prefix other than the rig roots is below the head rig root and every
\* bone of the beard prefix below the jaw rig root.
WellFormedRig(bs) ==
    /\ HasBone(bs, HEAD_RIG_NAME)
    /\ HasBone(bs, JAW_RIG_NAME)
    /\ \A n \in BoneNames(bs) \ RigRoots :
           /\ StartsWith(n, HAIR_BONE_PREFIX)
                  => n \in Descendants(bs, HEAD_RIG_NAME)
           /\ StartsWith(n, BEARD_BONE_PREFIX)
                  => n \in Descendants(bs, JAW_RIG_NAME)

\* The bones have the names and the parents they had.
NamesAndParentsKept(before, after) ==
    /\ Len(after) = Len(before)
    /\ \A i \in DOMAIN before :
           /\ after[i].name = before[i].name
           /\ after[i].parent = before[i].parent

\* C29: on a well-formed rig repair_orphaned_hair_bones renames no bone
\* and gives no bone a new parent.
C29_RepairKeepsWellFormedRig ==
    rig_pc = "repaired" /\ WellFormedRig(old_bones)
        => NamesAndParentsKept(old_bones, edit_bones)

\* ---------------------------------------------------------------------
\* Joining grease-pencil strokes: combine_strokes, find_stroke_set_root
\* and stroke_root_to_loop.  Positions lie on a line, in units of 5 mm; a
\* stroke is <<first point, last point>> and is identified by its index
\* in the frame's stroke list.
\* ---------------------------------------------------------------------

\* 1 cm, in units of 5 mm.
STROKE_JOIN_THRESHOLD == 2

\* Most strokes in a frame.
MaxStrokes == 3

\* The interpreter's recursion limit, above every chain the strokes of a
\* frame can form without a cycle.
MaxDepth == 5

\* Positions: 0 and 1 are within the threshold of each other, 1 and 3 are
\* exactly the threshold apart, 0 and 3 are further apart.
StrokeEnds == {0, 1, 3}

StrokeLists ==
    UNION {[1 .. n -> StrokeEnds \X StrokeEnds] : n \in 0 .. MaxStrokes}

\* (a - b).length < STROKE_JOIN_THRESHOLD
Near(a, b) == Abs(a - b) < STROKE_JOIN_THRESHOLD

\* The indices i of 1 .. n with P(i), in ascending order, as a list.
RECURSIVE ListOfNear(_, _, _, _, _)
ListOfNear(ss, stroke, at_first, i, acc) ==
    IF i > Len(ss) THEN acc
    ELSE ListOfNear(ss, stroke, at_first, i + 1,
             IF /\ i # stroke
                /\ IF at_first THEN Near(ss[i][1], ss[stroke][2])
                               ELSE Near(ss[i][2], ss[stroke][1])
             THEN Append(acc, i) ELSE acc)

\* The stroke_set of combine_strokes: for every stroke the strokes that
\* start near its last point and the strokes that end near its first.
StrokeSet(ss) ==
    [s \in DOMAIN ss |->
        <<ListOfNear(ss, s, TRUE, 1, <<>>), ListOfNear(ss, s, FALSE, 1, <<>>)>>]

\* Python's == between two values, each <<type, value>>: values of
\* different types are never equal.
PyEq(a, b) == a[1] = b[1] /\ a[2] = b[2]

\* prev_strokes in done: the list prev_strokes is compared with each
\* stroke of the done list.
InDone(prev_strokes, done_list) ==
    \E i \in DOMAIN done_list :
        PyEq(<<"list", prev_strokes>>, <<"stroke", done_list[i]>>)

StrokesInit ==
    /\ IslIdle
    /\ MrgIdle
    /\ RigIdle
    /\ BindIdle
    /\ LineIdle
    /\ PolyIdle
    /\ LoopsIdle
    /\ RemIdle
    /\ EdgesIdle
    /\ SortIdle
    /\ AccIdle
    /\ strokes \in StrokeLists
    /\ stroke_set = <<>>
    /\ stroke_roots = {}
    /\ stk_k = 0
    /\ stk_stroke = 0
    /\ done = <<>>
    /\ stk_depth = 0
    /\ stk_loop = <<>>
    /\ stk_roots_left = {}
    /\ stk_pc = "start"

\* combine_strokes up to its second loop: the stroke_set is built and
\* find_stroke_set_root is called for the first stroke with an empty done
\* list.
CombineStrokes ==
    /\ stk_pc = "start"
    /\ stroke_set' = StrokeSet(strokes)
    /\ stroke_roots' = {}
    /\ stk_k' = 1
    /\ stk_stroke' = IF strokes = <<>> THEN 0 ELSE 1
    /\ stk_depth' = IF strokes = <<>> THEN 0 ELSE 1
    /\ done' = <<>>
    /\ stk_pc' = IF strokes = <<>> THEN "loops" ELSE "find"
    /\ UNCHANGED <<strokes, stk_loop, stk_roots_left>>
    /\ UNCHANGED otherThanStrokes

\* One call of find_stroke_set_root.  When it returns to combine_strokes
\* the root, if any, is added and the next stroke is taken; a call beyond
\* the recursion limit raises RecursionError, which nothing catches.
FindStrokeSetRoot ==
    /\ stk_pc = "find"
    /\ LET done2 == Append(done, stk_stroke)
           prev_strokes == stroke_set[stk_stroke][2]
           recurse == prev_strokes # <<>> /\ ~InDone(prev_strokes, done2)
           root == IF prev_strokes = <<>> THEN {stk_stroke} ELSE {}
       IN  /\ done' = done2
           /\ IF recurse
              THEN /\ IF stk_depth = MaxDepth
                      THEN /\ stk_pc' = "raised"
                           /\ UNCHANGED <<stk_stroke, stk_depth>>
                      ELSE /\ stk_pc' = "find"
                           /\ stk_stroke' = prev_strokes[1]
                           /\ stk_depth' = stk_depth + 1
                   /\ UNCHANGED <<stroke_roots, stk_k, stk_roots_left>>
              ELSE /\ stroke_roots' = stroke_roots \cup root
                   /\ stk_k' = stk_k + 1
                   /\ IF stk_k = Len(strokes)
                      THEN /\ stk_pc' = "loops"
                           /\ stk_stroke' = 0
                           /\ stk_depth' = 0
                           /\ stk_roots_left' = stroke_roots \cup root
                      ELSE /\ stk_pc' = "next"
                           /\ stk_stroke' = stk_k + 1
                           /\ stk_depth' = 1
                           /\ UNCHANGED stk_roots_left
    /\ UNCHANGED <<strokes, stroke_set, stk_loop>>
    /\ UNCHANGED otherThanStrokes

\* combine_strokes calls find_stroke_set_root for the next stroke with a
\* new done list.
NextStroke ==
    /\ stk_pc = "next"
    /\ done' = <<>>
    /\ stk_pc' = "find"
    /\ UNCHANGED <<strokes, stroke_set, stroke_roots, stk_k, stk_stroke,
                   stk_depth, stk_loop, stk_roots_left>>
    /\ UNCHANGED otherThanStrokes

\* greased_pencil_to_length_loops takes the next root, in the set's
\* order, with an empty loop.
StartLoop ==
    /\ stk_pc = "loops"
    /\ \E root \in stk_roots_left :
           /\ stk_stroke' = root
           /\ stk_roots_left' = stk_roots_left \ {root}
    /\ stk_loop' = <<>>
    /\ stk_depth' = 1
    /\ stk_pc' = "walk"
    /\ UNCHANGED <<strokes, stroke_set, stroke_roots, stk_k, done>>
    /\ UNCHANGED otherThanStrokes

\* One call of stroke_root_to_loop: the stroke's points are appended and
\* the first of its next strokes, if any, is walked.
StrokeRootToLoop ==
    /\ stk_pc = "walk"
    /\ stk_loop' = Append(stk_loop, stk_stroke)
    /\ LET next_strokes == stroke_set[stk_stroke][1]
       IN  IF next_strokes # <<>>
           THEN IF stk_depth = MaxDepth
                THEN /\ stk_pc' = "raised"
                     /\ UNCHANGED <<stk_stroke, stk_depth>>
                ELSE /\ stk_pc' = "walk"
                     /\ stk_stroke' = next_strokes[1]
                     /\ stk_depth' = stk_depth + 1
           ELSE /\ stk_pc' = "loops"
                /\ stk_stroke' = 0
                /\ stk_depth' = 0
    /\ UNCHANGED <<strokes, stroke_set, stroke_roots, stk_k, done,
                   stk_roots_left>>
    /\ UNCHANGED otherThanStrokes

\* Every root has been turned into a loop.
StrokeLoopsReturn ==
    /\ stk_pc = "loops"
    /\ stk_roots_left = {}
    /\ stk_pc' = "finished"
    /\ UNCHANGED <<strokes, stroke_set, stroke_roots, stk_k, stk_stroke, done,
                   stk_depth, stk_loop, stk_roots_left>>
    /\ UNCHANGED otherThanStrokes

StrokesNext ==
    \/ CombineStrokes
    \/ FindStrokeSetRoot
    \/ NextStroke
    \/ StartLoop
    \/ StrokeRootToLoop
    \/ StrokeLoopsReturn

SpecStrokes == StrokesInit /\ [][StrokesNext]_vars

NoDuplicates(s) == \A i, j \in DOMAIN s : s[i] = s[j] => i = j

\* No call of the joining has gone beyond the recursion limit.
JoiningNotAborted == stk_pc # "raised"

RootsHaveNoPrecedingStroke ==
    \A r \in stroke_roots : stroke_set[r][2] = <<>>

\* C30: joining the strokes of a frame comes to an end for every finite set
\* of strokes, also when the joins form a cycle or lead into one:
\* find_stroke_set_root visits each stroke at most once, stroke_root_to_loop
\* appends each stroke's points at most once, and the roots combine_strokes
\* returns are strokes without a preceding stroke.
C30_JoiningVisitsEachStrokeOnce ==
    /\ JoiningNotAborted
    /\ NoDuplicates(done)
    /\ NoDuplicates(stk_loop)
    /\ RootsHaveNoPrecedingStroke

=============================================================================
